---- MODULE Spec2Model ----
(***************************************************************************)
(* Model of the multi-database adapter layer: the REST query parser and    *)
(* compiler (packages/rest-api/rest-generator.ts) and the transaction      *)
(* handling of the PostgreSQL and Azure SQL adapters                       *)
(* (packages/database-adapters).                                           *)
(*                                                                         *)
(* SQL text and query-string values are TLA+ strings; a character of a     *)
(* string s is SubSeq(s, i, i).  JavaScript values that flow into the      *)
(* parameter list are records [t, v, items]: t is the JavaScript type,     *)
(* v the value written as text, items the elements of an array.            *)
(***************************************************************************)
EXTENDS Integers, Sequences, FiniteSets, TLC

\* ------------------------------------------------------------------------
\* Bounds of the model
\* ------------------------------------------------------------------------
MaxFilters == 3
MaxInLen == 3
MaxColumnFilters == 2
MaxRowCount == 2
MaxBulkRows == 3
MaxFkColumns == 3
MaxConnects == 2
MaxDisconnects == 2
MaxQueries == 2
MaxPolicyOps == 3
MaxRegisters == 2
MaxCreates == 2
PoolSize == 1
NumTx == 2
MaxStmts == 1
MaxPlain == 1
MaxSubs == 2
MaxTicks == 2
MaxChanges == 2

\* ------------------------------------------------------------------------
\* JavaScript string primitives
\* ------------------------------------------------------------------------
Char(s, i) == SubSeq(s, i, i)

Digits == "0123456789"
UpperLetters == "ABCDEFGHIJKLMNOPQRSTUVWXYZ"
LowerLetters == "abcdefghijklmnopqrstuvwxyz"

RECURSIVE IndexFrom(_, _, _)
IndexFrom(c, s, i) ==
    IF i > Len(s) THEN 0
    ELSE IF Char(s, i) = c THEN i
    ELSE IndexFrom(c, s, i + 1)

\* String.prototype.indexOf for a one-character needle, 1-based, 0 if absent
IndexOf(c, s) == IndexFrom(c, s, 1)

IsDigit(c) == IndexOf(c, Digits) > 0

RECURSIVE MapChars(_, _, _, _)
MapChars(s, from, to, i) ==
    IF i > Len(s) THEN ""
    ELSE LET c == Char(s, i)
             k == IndexOf(c, from)
         IN  (IF k > 0 THEN Char(to, k) ELSE c) \o MapChars(s, from, to, i + 1)

toLowerCase(s) == MapChars(s, UpperLetters, LowerLetters, 1)
toUpperCase(s) == MapChars(s, LowerLetters, UpperLetters, 1)

RECURSIVE SplitAcc(_, _, _, _, _)
SplitAcc(s, sep, i, cur, acc) ==
    IF i > Len(s) THEN Append(acc, cur)
    ELSE IF Char(s, i) = sep THEN SplitAcc(s, sep, i + 1, "", Append(acc, cur))
    ELSE SplitAcc(s, sep, i + 1, cur \o Char(s, i), acc)

\* String.prototype.split with a one-character separator
Split(s, sep) == SplitAcc(s, sep, 1, "", <<>>)

RECURSIVE Join(_, _)
\* Array.prototype.join over an array of strings
Join(parts, sep) ==
    IF Len(parts) = 0 THEN ""
    ELSE IF Len(parts) = 1 THEN parts[1]
    ELSE parts[1] \o sep \o Join(Tail(parts), sep)

RECURSIVE TrimLeft(_)
TrimLeft(s) == IF Len(s) > 0 /\ Char(s, 1) = " " THEN TrimLeft(Tail(s)) ELSE s

RECURSIVE TrimRight(_)
TrimRight(s) ==
    IF Len(s) > 0 /\ Char(s, Len(s)) = " "
    THEN TrimRight(SubSeq(s, 1, Len(s) - 1)) ELSE s

\* String.prototype.trim (the blank is the only white space of the inputs)
Trim(s) == TrimRight(TrimLeft(s))

RECURSIVE ReplaceAll(_, _, _)
\* String.prototype.replace(/c/g, r) for a one-character pattern
ReplaceAll(s, c, r) ==
    IF Len(s) = 0 THEN ""
    ELSE (IF Char(s, 1) = c THEN r ELSE Char(s, 1)) \o ReplaceAll(Tail(s), c, r)

RECURSIVE NatToStr(_)
NatToStr(n) ==
    IF n < 10 THEN Char(Digits, n + 1)
    ELSE NatToStr(n \div 10) \o Char(Digits, (n % 10) + 1)

\* Number.prototype.toString of an integer, as a template literal writes it
ToStr(n) == IF n < 0 THEN "-" \o NatToStr(0 - n) ELSE NatToStr(n)

RECURSIVE DigitsLen(_, _)
\* length of the run of decimal digits of s that starts at position i
DigitsLen(s, i) ==
    IF i <= Len(s) /\ IsDigit(Char(s, i)) THEN 1 + DigitsLen(s, i + 1) ELSE 0

RECURSIVE StrToNat(_, _)
StrToNat(s, acc) ==
    IF Len(s) = 0 THEN acc
    ELSE StrToNat(Tail(s), acc * 10 + (IndexOf(Char(s, 1), Digits) - 1))

\* A JavaScript number: an integer or NaN
NaN == [nan |-> TRUE, n |-> 0]
Int2Js(k) == [nan |-> FALSE, n |-> k]
Truthy(x) == ~x.nan /\ x.n # 0

\* parseInt(s): leading blanks, an optional sign, then the longest run of
\* digits; NaN when there is no digit
parseInt(str) ==
    LET s == TrimLeft(str)
        neg == Len(s) > 0 /\ Char(s, 1) = "-"
        signed == Len(s) > 0 /\ Char(s, 1) \in {"-", "+"}
        start == IF signed THEN 2 ELSE 1
        k == DigitsLen(s, start)
    IN  IF k = 0 THEN NaN
        ELSE LET m == StrToNat(SubSeq(s, start, start + k - 1), 0)
             IN  Int2Js(IF neg THEN 0 - m ELSE m)

\* Number(s) on the strings of the model: blank text is 0, an optionally
\* signed run of digits is that integer, anything else is NaN
Number(str) ==
    LET s == Trim(str)
        neg == Len(s) > 0 /\ Char(s, 1) = "-"
        signed == Len(s) > 0 /\ Char(s, 1) \in {"-", "+"}
        start == IF signed THEN 2 ELSE 1
        k == DigitsLen(s, start)
    IN  IF Len(s) = 0 THEN Int2Js(0)
        ELSE IF k = 0 \/ start + k - 1 # Len(s) THEN NaN
        ELSE LET m == StrToNat(SubSeq(s, start, Len(s)), 0)
             IN  Int2Js(IF neg THEN 0 - m ELSE m)

\* ------------------------------------------------------------------------
\* JavaScript values of the parameter list
\* ------------------------------------------------------------------------
JsNull == [t |-> "null", v |-> "null", items |-> <<>>]
JsBool(b) == [t |-> "boolean", v |-> IF b THEN "true" ELSE "false", items |-> <<>>]
JsNum(k) == [t |-> "number", v |-> ToStr(k), items |-> <<>>]
JsStr(s) == [t |-> "string", v |-> s, items |-> <<>>]
JsArr(xs) == [t |-> "array", v |-> "", items |-> xs]

\* RestAPIGenerator.parseValue
parseValue(value) ==
    IF value = "null" THEN JsNull
    ELSE IF value = "true" THEN JsBool(TRUE)
    ELSE IF value = "false" THEN JsBool(FALSE)
    ELSE IF ~Number(value).nan THEN JsNum(Number(value).n)
    ELSE JsStr(value)

\* ------------------------------------------------------------------------
\* Dialect facts of the two adapters
\* ------------------------------------------------------------------------
Dialects == {"postgresql", "tsql"}

\* PostgreSQLAdapter.escapeIdentifier / AzureSQLAdapter.escapeIdentifier
escapeIdentifier(dialect, identifier) ==
    IF dialect = "postgresql"
    THEN "\"" \o ReplaceAll(identifier, "\"", "\"\"") \o "\""
    ELSE "[" \o ReplaceAll(identifier, "]", "]]") \o "]"

\* faulty variant of getParamPlaceholder: PostgreSQL placeholders numbered
\* from 0
getParamPlaceholder_ZeroBased(dialect, index) ==
    IF dialect = "postgresql" THEN "$" \o ToStr(index)
    ELSE IF dialect = "tsql" THEN "@param" \o ToStr(index)
    ELSE "?"

\* RestAPIGenerator.getParamPlaceholder
getParamPlaceholder(dialect, index) ==
    IF dialect = "postgresql" THEN "$" \o ToStr(index + 1)
    ELSE IF dialect = "tsql" THEN "@param" \o ToStr(index)
    ELSE "?"

\* ------------------------------------------------------------------------
\* Query compiler (RestAPIGenerator)
\* ------------------------------------------------------------------------
SupportedOperators ==
    {"eq", "neq", "gt", "gte", "lt", "lte", "like", "ilike", "in", "is"}

\* faulty variant of InValues: an array is bound as one value
InValues_Wrapped(value) == <<value>>

\* the values an `in` filter binds: the array itself, or the scalar alone
InValues(value) == IF value.t = "array" THEN value.items ELSE <<value>>

\* faulty variant of InPlaceholders: one placeholder whatever the array holds
InPlaceholders_Single(dialect, inValues, paramIdx) ==
    getParamPlaceholder(dialect, paramIdx)

\* the placeholder list of an `in` predicate
InPlaceholders(dialect, inValues, paramIdx) ==
    Join([i \in 1..Len(inValues) |->
              getParamPlaceholder(dialect, paramIdx + (i - 1))], ", ")

\* status and body of the response written by defaultErrorHandler
defaultErrorHandler(message) ==
    [status |-> 500, kind |-> "error", error |-> message, count |-> 0]

\* body of the switch of buildWhereClause for one filter: the predicate it
\* pushes on clauses and the values it pushes on params, or the error thrown
WherePredicate(dialect, filter, paramIdx) ==
    LET column == escapeIdentifier(dialect, filter.column)
        op == toLowerCase(filter.operator)
        ph == getParamPlaceholder(dialect, paramIdx)
        one(text) == [threw |-> FALSE, error |-> "", clause |-> text,
                      params |-> <<filter.value>>]
    IN  CASE op = "eq" -> one(column \o " = " \o ph)
          [] op = "neq" -> one(column \o " != " \o ph)
          [] op = "gt" -> one(column \o " > " \o ph)
          [] op = "gte" -> one(column \o " >= " \o ph)
          [] op = "lt" -> one(column \o " < " \o ph)
          [] op = "lte" -> one(column \o " <= " \o ph)
          [] op = "like" -> one(column \o " LIKE " \o ph)
          [] op = "ilike" ->
                IF dialect = "postgresql"
                THEN one(column \o " ILIKE " \o ph)
                ELSE one("LOWER(" \o column \o ") LIKE LOWER(" \o ph \o ")")
          [] op = "in" ->
                [threw |-> FALSE, error |-> "",
                 clause |-> column \o " IN ("
                            \o InPlaceholders(dialect, InValues(filter.value), paramIdx)
                            \o ")",
                 params |-> InValues(filter.value)]
          [] op = "is" ->
                [threw |-> FALSE, error |-> "",
                 clause |-> column \o " IS "
                            \o (IF filter.value = JsNull THEN "NULL" ELSE "NOT NULL"),
                 params |-> <<>>]
          [] OTHER ->
                [threw |-> TRUE,
                 error |-> "Unsupported operator: " \o filter.operator,
                 clause |-> "", params |-> <<>>]

RECURSIVE WhereLoop(_, _, _, _, _)
\* the for loop of buildWhereClause
WhereLoop(dialect, filters, paramOffset, clauses, params) ==
    IF Len(filters) = 0
    THEN [threw |-> FALSE, error |-> "",
          clause |-> Join(clauses, " AND "), params |-> params]
    ELSE LET p == WherePredicate(dialect, Head(filters), paramOffset + Len(params))
         IN  IF p.threw
             THEN [threw |-> TRUE, error |-> p.error, clause |-> "", params |-> <<>>]
             ELSE WhereLoop(dialect, Tail(filters), paramOffset,
                            Append(clauses, p.clause), params \o p.params)

\* RestAPIGenerator.buildWhereClause
buildWhereClause(dialect, filters, paramOffset) ==
    WhereLoop(dialect, filters, paramOffset, <<>>, <<>>)

\* Math.min(filters.limit || this.maxRows, this.maxRows)
EffectiveLimit(filters, maxRows) ==
    LET requested == IF filters.hasLimit /\ Truthy(filters.limit)
                     THEN filters.limit.n ELSE maxRows
    IN  IF requested < maxRows THEN requested ELSE maxRows

\* filters.offset || 0
EffectiveOffset(filters) ==
    IF filters.hasOffset /\ Truthy(filters.offset) THEN filters.offset.n ELSE 0

\* the ORDER BY items of buildSelectQuery
OrderClauses(dialect, order) ==
    Join([i \in 1..Len(order) |->
              escapeIdentifier(dialect, order[i].column) \o " " \o order[i].direction],
         ", ")

\* the LIMIT/OFFSET tail of buildSelectQuery
Pagination(dialect, filters, maxRows) ==
    LET limit == EffectiveLimit(filters, maxRows)
        offset == EffectiveOffset(filters)
    IN  IF dialect = "postgresql"
        THEN " LIMIT " \o ToStr(limit) \o " OFFSET " \o ToStr(offset)
        ELSE IF dialect = "tsql"
        THEN (IF Len(filters.order) = 0 THEN " ORDER BY (SELECT NULL)" ELSE "")
             \o " OFFSET " \o ToStr(offset) \o " ROWS FETCH NEXT "
             \o ToStr(limit) \o " ROWS ONLY"
        ELSE ""

\* RestAPIGenerator.buildSelectQuery
buildSelectQuery(dialect, maxRows, table, filters) ==
    LET cols == IF filters.hasSelect /\ Len(filters.select) > 0
                THEN Join([i \in 1..Len(filters.select) |->
                               escapeIdentifier(dialect, filters.select[i])], ", ")
                ELSE "*"
        w == IF Len(filters.where) > 0
             THEN buildWhereClause(dialect, filters.where, 0)
             ELSE [threw |-> FALSE, error |-> "", clause |-> "", params |-> <<>>]
    IN  IF w.threw
        THEN [threw |-> TRUE, error |-> w.error, query |-> "", params |-> <<>>]
        ELSE [threw |-> FALSE, error |-> "",
              query |-> "SELECT " \o cols
                        \o " FROM " \o escapeIdentifier(dialect, table)
                        \o (IF Len(filters.where) > 0
                            THEN " WHERE " \o w.clause ELSE "")
                        \o (IF Len(filters.order) > 0
                            THEN " ORDER BY " \o OrderClauses(dialect, filters.order)
                            ELSE "")
                        \o Pagination(dialect, filters, maxRows),
              params |-> w.params]

\* RestAPIGenerator.buildUpdateQuery; data is the body as a sequence of
\* [key, value] entries in Object.keys order
buildUpdateQuery(dialect, table, data, whereFilters) ==
    LET setClauses == Join([i \in 1..Len(data) |->
                                escapeIdentifier(dialect, data[i].key) \o " = "
                                \o getParamPlaceholder(dialect, i - 1)], ", ")
        values == [i \in 1..Len(data) |-> data[i].value]
        w == buildWhereClause(dialect, whereFilters, Len(values))
    IN  IF w.threw
        THEN [threw |-> TRUE, error |-> w.error, query |-> "", params |-> <<>>]
        ELSE [threw |-> FALSE, error |-> "",
              query |-> "UPDATE " \o escapeIdentifier(dialect, table)
                        \o " SET " \o setClauses \o " WHERE " \o w.clause,
              params |-> values \o w.params]

\* ------------------------------------------------------------------------
\* Filter parser (RestAPIGenerator.parseQueryFilters); a query is the
\* sequence of [key, value] entries of req.query in Object.entries order
\* ------------------------------------------------------------------------
ReservedKeys == {"select", "order", "limit", "offset"}

HasKey(query, k) == \E i \in 1..Len(query) : query[i].key = k
Lookup(query, k) == query[CHOOSE i \in 1..Len(query) : query[i].key = k].value

\* if (query.k): the key is present and its text is not empty
Given(query, k) == HasKey(query, k) /\ Lookup(query, k) # ""

\* one column filter: [operator, ...valueParts] = value.split(".")
ParseFilter(key, value) ==
    LET parts == Split(value, ".")
        operator == Head(parts)
        filterValue == Join(Tail(parts), ".")
    IN  [column |-> key,
         operator |-> IF operator # "" THEN operator ELSE "eq",
         value |-> parseValue(filterValue)]

\* one item of the order list: [column, direction] = order.trim().split(".")
ParseOrder(item) ==
    LET parts == Split(Trim(item), ".")
        direction == IF Len(parts) >= 2 THEN toUpperCase(parts[2]) ELSE ""
    IN  [column |-> parts[1],
         direction |-> IF direction # "" THEN direction ELSE "ASC"]

RECURSIVE ParseWhere(_)
ParseWhere(query) ==
    IF Len(query) = 0 THEN <<>>
    ELSE IF Head(query).key \in ReservedKeys THEN ParseWhere(Tail(query))
    ELSE <<ParseFilter(Head(query).key, Head(query).value)>> \o ParseWhere(Tail(query))

parseQueryFilters(query) ==
    LET sel == IF Given(query, "select") THEN Split(Lookup(query, "select"), ",")
               ELSE <<>>
        ord == IF Given(query, "order") THEN Split(Lookup(query, "order"), ",")
               ELSE <<>>
    IN  [hasSelect |-> Given(query, "select"),
         select |-> [i \in 1..Len(sel) |-> Trim(sel[i])],
         where |-> ParseWhere(query),
         order |-> [i \in 1..Len(ord) |-> ParseOrder(ord[i])],
         hasLimit |-> Given(query, "limit"),
         limit |-> IF Given(query, "limit")
                   THEN parseInt(Lookup(query, "limit")) ELSE NaN,
         hasOffset |-> Given(query, "offset"),
         offset |-> IF Given(query, "offset")
                    THEN parseInt(Lookup(query, "offset")) ELSE NaN]

\* ------------------------------------------------------------------------
\* State
\* ------------------------------------------------------------------------
VARIABLES
    dialect,    \* adapter.dialect of the adapter the generator was built with
    maxRows,    \* RestAPIGenerator.maxRows
    pc,         \* position of the request handler
    req,        \* the request being handled
    filters,    \* the QueryFilters the handler works on
    compiled,   \* the last { query, params } a build function returned
    calls,      \* statements passed to adapter.query / adapter.queryOne
    res         \* the response written for the request

restVars == <<dialect, maxRows, pc, req, filters, compiled, calls, res>>

VARIABLES
    holder,     \* per pooled connection: 0 when idle, else who checked it out
    queue,      \* per connection: statements sent and not yet executed
    connLog,    \* per connection: statements executed, oldest first
    tx,         \* per transaction(fn) call: its position and bookkeeping
    plain       \* number of adapter.query calls made outside transactions

txVars == <<holder, queue, connLog, tx, plain>>

VARIABLES
    ins,        \* handleInsert: the rows of the body and the results so far
    item,       \* /{table}/{id} handlers: the id and the table's primaryKeys
    replies,    \* what the backend answered to each adapter call, in order
    stored      \* rows the backend has applied to the table, oldest first

rowVars == <<ins, item, replies, stored>>

VARIABLES
    rawRows,     \* getForeignKeys: result.rows, in the order they arrived
    foreignKeys  \* getForeignKeys: the ForeignKeyInfo list it returned

catVars == <<rawRows, foreignKeys>>

VARIABLES
    pool,        \* this.pool: 0 for undefined, else the pool object it refers to
    pools,       \* the driver's pool objects created so far: state, end() calls
    connects,    \* the connect() calls made so far
    disconnects, \* the disconnect() calls made so far
    queryLog,    \* the query() calls made so far and how each ended
    ready        \* a connect() has resolved and no disconnect() completed since

lifeVars == <<pool, pools, connects, disconnects, queryLog, ready>>

VARIABLES
    policies,    \* names of the policies that exist on the backend
    functions,   \* names of the predicate functions that exist on the backend
    policyOps    \* the applySecurityPolicy / removeSecurityPolicy calls made

polVars == <<policies, functions, policyOps>>

VARIABLES
    adapters,     \* AdapterRegistry.adapters: the entries of the Map, in order
    registered,   \* the register calls made so far
    created,      \* the create calls made so far and how each ended
    factoryCalls  \* the factories invoked so far, each with the create call

regVars == <<adapters, registered, created, factoryCalls>>

VARIABLES
    existing,    \* the tables that exist in the database right now
    intro        \* the getTable / getTables call under way and how it ended

introVars == <<existing, intro>>

VARIABLES
    subs,        \* the subscriptions made so far: closure state of each
    timers,      \* the subscriptions whose setInterval timer is scheduled
    cdcPollers,  \* AzureSQLAdapter.cdcPollers: key -> timer, 0 for no entry
    polls,       \* the poll ticks suspended on their query
    ticks,       \* how many timer ticks have sent a query so far
    changeLog    \* per table, how many change rows the backend holds

subVars == <<subs, timers, cdcPollers, polls, ticks, changeLog>>

vars == <<restVars, txVars, rowVars, catVars, lifeVars, polVars, regVars, introVars, subVars>>

\* what getForeignKeys leaves alone
outsideCat == <<txVars, rowVars, lifeVars, polVars, regVars, introVars, subVars>>
\* what connect, disconnect and query of an adapter leave alone
outsideLife == <<restVars, txVars, rowVars, catVars, polVars, regVars, introVars, subVars>>
\* what the batch handlers and the compiler leave alone
outsideRest == <<txVars, rowVars, catVars, lifeVars, polVars, regVars, introVars, subVars>>
\* what transaction(fn) and adapter.query leave alone
outsideTx == <<restVars, rowVars, catVars, lifeVars, polVars, regVars, introVars, subVars>>
\* what the row handlers leave alone
outsideRow == <<txVars, catVars, lifeVars, polVars, regVars, introVars, subVars>>
\* what applySecurityPolicy and removeSecurityPolicy leave alone
outsidePol == <<restVars, txVars, rowVars, catVars, lifeVars, regVars, introVars, subVars>>
\* what AdapterRegistry leaves alone
outsideReg == <<restVars, txVars, rowVars, catVars, lifeVars, polVars, introVars, subVars>>
\* what getTable and getTables leave alone
outsideIntro == <<txVars, rowVars, catVars, lifeVars, polVars, regVars, subVars>>
\* what subscribeToChanges, its timer and its Subscription leave alone
outsideSub == <<restVars, txVars, rowVars, catVars, lifeVars, polVars, regVars, introVars>>

NoReq == [method |-> "", table |-> "", query |-> <<>>, body |-> <<>>]
NoRes == [status |-> 0, kind |-> "", error |-> "", count |-> 0]
NoFilters == [hasSelect |-> FALSE, select |-> <<>>, where |-> <<>>,
              order |-> <<>>, hasLimit |-> FALSE, limit |-> NaN,
              hasOffset |-> FALSE, offset |-> NaN]
NoCompiled == [threw |-> FALSE, error |-> "", query |-> "", params |-> <<>>]

\* constructor: this.maxRows = config.maxRows || 1000 (0 stands for an
\* absent maxRows)
DefaultMaxRows == 1000
ConstructMaxRows(configured) ==
    IF configured # 0 THEN configured ELSE DefaultMaxRows

ConfiguredMaxRows == {0, 5}

\* ------------------------------------------------------------------------
\* Connection pool and transactions: initial state
\* ------------------------------------------------------------------------
Conns == 1..PoolSize
TxIds == 1..NumTx
\* the holder of a connection checked out by pool.query / pool.request()
PlainId == NumTx + 1

NoOutcome == [state |-> "pending", error |-> ""]
NewTx == [pc |-> "init", conn |-> 0, issued |-> 0, queries |-> 0,
          ctxEnded |-> FALSE, fn |-> "", err |-> "",
          checkouts |-> 0, releases |-> 0, outcome |-> NoOutcome]

NoIns == [array |-> FALSE, rows |-> <<>>, row |-> 0, results |-> <<>>]
NoItem == [route |-> "", id |-> "", known |-> FALSE, primaryKeys |-> <<>>]

RowIdle ==
    /\ ins = NoIns
    /\ item = NoItem
    /\ replies = <<>>
    /\ stored = <<>>

CatIdle ==
    /\ rawRows = <<>>
    /\ foreignKeys = <<>>

LifeIdle ==
    /\ pool = 0
    /\ pools = <<>>
    /\ connects = <<>>
    /\ disconnects = <<>>
    /\ queryLog = <<>>
    /\ ready = FALSE

PolIdle ==
    /\ policies = {}
    /\ functions = {}
    /\ policyOps = <<>>

RegIdle ==
    /\ adapters = <<>>
    /\ registered = <<>>
    /\ created = <<>>
    /\ factoryCalls = <<>>

\* the tables of the schema that is introspected
IntroTables == {"posts", "users"}
\* the four facets getTable fetches with Promise.all
Facets == {"columns", "primaryKeys", "foreignKeys", "indexes"}
FacetIdle == [state |-> "idle", value |-> "", error |-> ""]
NoIntro == [op |-> "none", rows |-> <<>>, i |-> 0,
            facets |-> [f \in Facets |-> FacetIdle],
            tables |-> <<>>, outcome |-> "none", error |-> ""]

IntroIdle ==
    /\ existing = IntroTables
    /\ intro = NoIntro

\* tables.join(",") of the table lists subscribed to (one table each)
SubKeys == {"orders", "users"}

SubIdle ==
    /\ subs = <<>>
    /\ timers = {}
    /\ cdcPollers = [k \in SubKeys |-> 0]
    /\ polls = {}
    /\ ticks = 0
    /\ changeLog = [k \in SubKeys |-> 0]

TxIdle ==
    /\ holder = [c \in Conns |-> 0]
    /\ queue = [c \in Conns |-> <<>>]
    /\ connLog = [c \in Conns |-> <<>>]
    /\ tx = [t \in TxIds |-> NewTx]
    /\ plain = 0

\* ------------------------------------------------------------------------
\* Inputs of the model
\* ------------------------------------------------------------------------
Entry(k, v) == [key |-> k, value |-> v]

ColumnEntries ==
    {Entry("name", v) : v \in {"eq.Alice", "Alice", "foo.bar"}}
    \cup {Entry("age", v) : v \in {"in.18,19,20", "gt.5"}}
    \cup {Entry("note", v) : v \in {"is.null"}}

DistinctKeys(q) == \A i, j \in 1..Len(q) : i # j => q[i].key # q[j].key

ColumnQueries ==
    {q \in UNION {[1..n -> ColumnEntries] : n \in 0..MaxColumnFilters} :
        DistinctKeys(q)}

ReservedQueries ==
    {<<>>,
     <<Entry("order", "created_at.desc")>>,
     <<Entry("order", "name.asc order by id")>>,
     <<Entry("limit", "10")>>,
     <<Entry("limit", "5000")>>,
     <<Entry("limit", "0")>>,
     <<Entry("limit", "-5")>>,
     <<Entry("limit", "abc")>>,
     <<Entry("offset", "-3")>>,
     <<Entry("order", "name.$9")>>,
     <<Entry("order", "created_at.desc"), Entry("limit", "10")>>,
     <<Entry("select", "id, name"), Entry("offset", "20")>>,
     <<Entry("select", "id, name"), Entry("order", "name"),
       Entry("limit", "3"), Entry("offset", "20")>>}

Queries == {c \o r : c \in ColumnQueries, r \in ReservedQueries}

Tables == {"users"}

Bodies == {<<>>, <<Entry("name", JsStr("Bob")), Entry("age", JsNum(30))>>}

\* ------------------------------------------------------------------------
\* Request handlers of the batch routes
\* ------------------------------------------------------------------------
Call(fn, sql, params) == [fn |-> fn, sql |-> sql, params |-> params]

JsonCount(n) == [status |-> 200, kind |-> "count", error |-> "", count |-> n]
JsonData(n) == [status |-> 200, kind |-> "data", error |-> "", count |-> n]
BadRequest(message) ==
    [status |-> 400, kind |-> "error", error |-> message, count |-> 0]

RestInit ==
    /\ dialect \in Dialects
    /\ maxRows \in {ConstructMaxRows(c) : c \in ConfiguredMaxRows}
    /\ pc = "idle"
    /\ req = NoReq
    /\ filters = NoFilters
    /\ compiled = NoCompiled
    /\ calls = <<>>
    /\ res = NoRes
    /\ TxIdle
    /\ RowIdle
    /\ CatIdle
    /\ LifeIdle
    /\ PolIdle
    /\ RegIdle
    /\ IntroIdle
    /\ SubIdle

\* handleSelect up to its first await
HandleSelect(table, query) ==
    /\ pc = "idle"
    /\ req' = [method |-> "GET", table |-> table, query |-> query, body |-> <<>>]
    /\ LET f == parseQueryFilters(query)
           sql == buildSelectQuery(dialect, maxRows, table, f)
       IN  /\ filters' = f
           /\ compiled' = sql
           /\ IF sql.threw
              THEN /\ res' = defaultErrorHandler(sql.error)
                   /\ pc' = "responded"
                   /\ calls' = calls
              ELSE /\ calls' = Append(calls, Call("query", sql.query, sql.params))
                   /\ pc' = "selectQuery"
                   /\ res' = res
    /\ UNCHANGED outsideRest
    /\ UNCHANGED <<dialect, maxRows>>

\* handleSelect after adapter.query resolved: getTableCount up to its await
SelectQueryResolved(rowCount) ==
    /\ pc = "selectQuery"
    /\ LET w == IF Len(filters.where) > 0
                THEN buildWhereClause(dialect, filters.where, 0)
                ELSE [threw |-> FALSE, error |-> "", clause |-> "", params |-> <<>>]
           sql == "SELECT COUNT(*) as count FROM "
                  \o escapeIdentifier(dialect, req.table)
                  \o (IF Len(filters.where) > 0 THEN " WHERE " \o w.clause ELSE "")
       IN  calls' = Append(calls, Call("queryOne", sql, w.params))
    /\ res' = [res EXCEPT !.count = rowCount]
    /\ pc' = "selectCount"
    /\ UNCHANGED outsideRest
    /\ UNCHANGED <<dialect, maxRows, req, filters, compiled>>

\* handleSelect after getTableCount resolved: res.json({ data, count, total })
SelectCountResolved ==
    /\ pc = "selectCount"
    /\ res' = JsonData(res.count)
    /\ pc' = "responded"
    /\ UNCHANGED outsideRest
    /\ UNCHANGED <<dialect, maxRows, req, filters, compiled, calls>>

\* faulty variant of MissingWhere: any key of the query string counts as a
\* filter
MissingWhere_AnyKey(f) ==
    /\ Len(f.where) = 0
    /\ ~f.hasSelect /\ ~f.hasLimit /\ ~f.hasOffset /\ Len(f.order) = 0

\* !filters.where || filters.where.length === 0
MissingWhere(f) == Len(f.where) = 0

\* handleUpdate up to its await
HandleUpdate(table, query, body) ==
    /\ pc = "idle"
    /\ req' = [method |-> "PATCH", table |-> table, query |-> query, body |-> body]
    /\ LET f == parseQueryFilters(query)
           sql == buildUpdateQuery(dialect, table, body, f.where)
       IN  /\ filters' = f
           /\ IF MissingWhere(f)
              THEN /\ res' = BadRequest("WHERE clause required for batch updates")
                   /\ pc' = "responded"
                   /\ UNCHANGED <<calls, compiled>>
              ELSE IF sql.threw
              THEN /\ res' = defaultErrorHandler(sql.error)
                   /\ pc' = "responded"
                   /\ compiled' = sql
                   /\ calls' = calls
              ELSE /\ calls' = Append(calls, Call("query", sql.query, sql.params))
                   /\ compiled' = sql
                   /\ pc' = "mutationQuery"
                   /\ res' = res
    /\ UNCHANGED outsideRest
    /\ UNCHANGED <<dialect, maxRows>>

\* handleDelete up to its await
HandleDelete(table, query) ==
    /\ pc = "idle"
    /\ req' = [method |-> "DELETE", table |-> table, query |-> query, body |-> <<>>]
    /\ LET f == parseQueryFilters(query)
           w == buildWhereClause(dialect, f.where, 0)
           sql == [threw |-> w.threw, error |-> w.error,
                   query |-> "DELETE FROM " \o escapeIdentifier(dialect, table)
                             \o " WHERE " \o w.clause,
                   params |-> w.params]
       IN  /\ filters' = f
           /\ IF MissingWhere(f)
              THEN /\ res' = BadRequest("WHERE clause required for batch deletes")
                   /\ pc' = "responded"
                   /\ UNCHANGED <<calls, compiled>>
              ELSE IF w.threw
              THEN /\ res' = defaultErrorHandler(w.error)
                   /\ pc' = "responded"
                   /\ compiled' = [sql EXCEPT !.query = ""]
                   /\ calls' = calls
              ELSE /\ calls' = Append(calls, Call("query", sql.query, sql.params))
                   /\ compiled' = sql
                   /\ pc' = "mutationQuery"
                   /\ res' = res
    /\ UNCHANGED outsideRest
    /\ UNCHANGED <<dialect, maxRows>>

\* handleUpdate / handleDelete after adapter.query resolved
MutationResolved(rowCount) ==
    /\ pc = "mutationQuery"
    /\ res' = JsonCount(rowCount)
    /\ pc' = "responded"
    /\ UNCHANGED outsideRest
    /\ UNCHANGED <<dialect, maxRows, req, filters, compiled, calls>>

\* an awaited adapter call rejected: catch (error) { next(error) }
QueryRejected ==
    /\ pc \in {"selectQuery", "selectCount", "mutationQuery"}
    /\ res' = defaultErrorHandler("backend error")
    /\ pc' = "responded"
    /\ UNCHANGED outsideRest
    /\ UNCHANGED <<dialect, maxRows, req, filters, compiled, calls>>

RestNext ==
    \/ \E t \in Tables, q \in Queries : HandleSelect(t, q)
    \/ \E n \in 0..MaxRowCount : SelectQueryResolved(n)
    \/ SelectCountResolved
    \/ \E t \in Tables, q \in Queries, b \in Bodies : HandleUpdate(t, q, b)
    \/ \E t \in Tables, q \in Queries : HandleDelete(t, q)
    \/ \E n \in 0..MaxRowCount : MutationResolved(n)
    \/ QueryRejected

SpecRest == RestInit /\ [][RestNext]_vars

\* ------------------------------------------------------------------------
\* Request handlers of POST /{table} and of the /{table}/{id} routes.  The
\* backend answers each adapter call with a reply; a resolved INSERT has
\* applied its row to the table.
\* ------------------------------------------------------------------------
Reply(ok, error, rowCount) == [ok |-> ok, error |-> error, rowCount |-> rowCount]

BackendErrors == {"unique_violation", "connection terminated"}

InsertRowPool ==
    {<<Entry("name", JsStr("Bob"))>>,
     <<Entry("name", JsStr("Eve")), Entry("age", JsNum(30))>>}

InsertArrays == UNION {[1..n -> InsertRowPool] : n \in 0..MaxBulkRows}

ItemIds == {"7"}

PrimaryKeyLists == {<<>>, <<"id">>, <<"tenant", "id">>}

RowQueries == {<<>>, <<Entry("name", "eq.Alice")>>}

Created(kind, n) == [status |-> 201, kind |-> kind, error |-> "", count |-> n]
NotFound == [status |-> 404, kind |-> "error", error |-> "Record not found",
             count |-> 0]
NoPrimaryKey == [status |-> 400, kind |-> "error",
                 error |-> "Table has no primary key", count |-> 0]

\* insertRow up to its await: the statement and the values it passes to
\* adapter.query
insertRow(table, data) ==
    LET columnList ==
            Join([i \in 1..Len(data) |-> escapeIdentifier(dialect, data[i].key)],
                 ", ")
        valuePlaceholders ==
            Join([i \in 1..Len(data) |-> getParamPlaceholder(dialect, i - 1)],
                 ", ")
        head == "INSERT INTO " \o escapeIdentifier(dialect, table)
                \o " (" \o columnList \o ")"
    IN  [query |->
             IF dialect = "postgresql"
             THEN head \o " VALUES (" \o valuePlaceholders \o ") RETURNING *"
             ELSE IF dialect = "tsql"
             THEN head \o " OUTPUT INSERTED.* VALUES (" \o valuePlaceholders \o ")"
             ELSE head \o " VALUES (" \o valuePlaceholders \o ")",
         params |-> [i \in 1..Len(data) |-> data[i].value]]

\* faulty variant of NextRow: the loop skips the row after the one just
\* inserted
NextRow_SkipsOne(results) == Len(results) + 2

\* for (const row of data): the row the loop takes after `results` rows
NextRow(results) == Len(results) + 1

\* handleInsert up to its first await
HandleInsert(table, array, rows) ==
    /\ pc = "idle"
    /\ req' = [method |-> "POST", table |-> table, query |-> <<>>,
               body |-> IF array THEN <<>> ELSE rows[1]]
    /\ IF array /\ NextRow(<<>>) > Len(rows)
       THEN /\ res' = Created("data", 0)
            /\ pc' = "responded"
            /\ calls' = calls
            /\ ins' = [array |-> array, rows |-> rows, row |-> 0,
                       results |-> <<>>]
       ELSE LET row == IF array THEN NextRow(<<>>) ELSE 1
                sql == insertRow(table, rows[row])
            IN  /\ calls' = Append(calls, Call("query", sql.query, sql.params))
                /\ pc' = "insertQuery"
                /\ res' = res
                /\ ins' = [array |-> array, rows |-> rows, row |-> row,
                           results |-> <<>>]
    /\ UNCHANGED <<dialect, maxRows, filters, compiled, item, replies, stored>>
    /\ UNCHANGED outsideRow

\* adapter.query of insertRow resolved: results.push(result.rows[0] || data),
\* then the next row of the loop, or the 201 response
InsertResolved(returned) ==
    /\ pc = "insertQuery"
    /\ LET data == ins.rows[ins.row]
           results == Append(ins.results, [returned |-> returned, row |-> data])
       IN  /\ replies' = Append(replies, Reply(TRUE, "", 1))
           /\ stored' = Append(stored, data)
           /\ IF ins.array /\ NextRow(results) <= Len(ins.rows)
              THEN LET sql == insertRow(req.table, ins.rows[NextRow(results)])
                   IN  /\ calls' = Append(calls,
                                          Call("query", sql.query, sql.params))
                       /\ ins' = [ins EXCEPT !.results = results,
                                             !.row = NextRow(results)]
                       /\ UNCHANGED <<pc, res>>
              ELSE /\ res' = IF ins.array THEN Created("data", Len(results))
                             ELSE Created("row", 1)
                   /\ pc' = "responded"
                   /\ calls' = calls
                   /\ ins' = [ins EXCEPT !.results = results]
    /\ UNCHANGED <<dialect, maxRows, req, filters, compiled, item>>
    /\ UNCHANGED outsideRow

\* adapter.query of insertRow rejected: catch (error) { next(error) }
InsertRejected(error) ==
    /\ pc = "insertQuery"
    /\ replies' = Append(replies, Reply(FALSE, error, 0))
    /\ res' = defaultErrorHandler(error)
    /\ pc' = "responded"
    /\ UNCHANGED <<dialect, maxRows, req, filters, compiled, calls,
                   ins, item, stored>>
    /\ UNCHANGED outsideRow

\* handleSelectOne: the statement passed to adapter.queryOne
selectOneQuery(table, pkColumn, id) ==
    [query |-> "SELECT * FROM " \o escapeIdentifier(dialect, table)
               \o " WHERE " \o escapeIdentifier(dialect, pkColumn)
               \o " = " \o getParamPlaceholder(dialect, 0),
     params |-> <<JsStr(id)>>]

\* handleUpdateOne: the statement passed to adapter.query
updateOneQuery(table, data, pkColumn, id) ==
    LET setClauses ==
            Join([i \in 1..Len(data) |->
                      escapeIdentifier(dialect, data[i].key) \o " = "
                      \o getParamPlaceholder(dialect, i - 1)], ", ")
        values == Append([i \in 1..Len(data) |-> data[i].value], JsStr(id))
        head == "UPDATE " \o escapeIdentifier(dialect, table)
                \o " SET " \o setClauses
        pk == escapeIdentifier(dialect, pkColumn) \o " = "
              \o getParamPlaceholder(dialect, Len(values) - 1)
    IN  [query |->
             IF dialect = "postgresql"
             THEN head \o " WHERE " \o pk \o " RETURNING *"
             ELSE IF dialect = "tsql"
             THEN head \o " OUTPUT INSERTED.* WHERE " \o pk
             ELSE head \o " WHERE " \o pk,
         params |-> values]

\* handleDeleteOne: the statement passed to adapter.query
deleteOneQuery(table, pkColumn, id) ==
    [query |-> "DELETE FROM " \o escapeIdentifier(dialect, table)
               \o " WHERE " \o escapeIdentifier(dialect, pkColumn)
               \o " = " \o getParamPlaceholder(dialect, 0),
     params |-> <<JsStr(id)>>]

\* handleSelectOne / handleUpdateOne / handleDeleteOne up to
\* await this.adapter.getTable(table)
HandleOne(method, table, id, body) ==
    /\ pc = "idle"
    /\ req' = [method |-> method, table |-> table, query |-> <<>>,
               body |-> body]
    /\ item' = [route |-> "one", id |-> id, known |-> FALSE,
                primaryKeys |-> <<>>]
    /\ calls' = Append(calls, Call("getTable", table, <<>>))
    /\ pc' = "getTable"
    /\ UNCHANGED <<dialect, maxRows, filters, compiled, res, ins, replies,
                   stored>>
    /\ UNCHANGED outsideRow

\* const pkColumn = tableInfo.primaryKeys[0]; if (!pkColumn)
MissingPrimaryKey(primaryKeys) ==
    \/ Len(primaryKeys) = 0
    \/ primaryKeys[1] = ""

\* getTable resolved: the 400 of a table without primary key, or the
\* statement by primary key up to its await
GetTableResolved(primaryKeys) ==
    /\ pc = "getTable"
    /\ item' = [item EXCEPT !.known = TRUE, !.primaryKeys = primaryKeys]
    /\ IF MissingPrimaryKey(primaryKeys)
       THEN /\ res' = NoPrimaryKey
            /\ pc' = "responded"
            /\ UNCHANGED <<calls, compiled>>
       ELSE LET pkColumn == IF Len(primaryKeys) = 0 THEN "undefined"
                            ELSE primaryKeys[1]
                sql == IF req.method = "GET"
                       THEN selectOneQuery(req.table, pkColumn, item.id)
                       ELSE IF req.method = "PUT"
                       THEN updateOneQuery(req.table, req.body, pkColumn,
                                           item.id)
                       ELSE deleteOneQuery(req.table, pkColumn, item.id)
            IN  /\ calls' = Append(calls,
                                   Call(IF req.method = "GET" THEN "queryOne"
                                        ELSE "query", sql.query, sql.params))
                /\ compiled' = [threw |-> FALSE, error |-> "",
                                query |-> sql.query, params |-> sql.params]
                /\ pc' = "oneQuery"
                /\ res' = res
    /\ UNCHANGED <<dialect, maxRows, req, filters, ins, replies, stored>>
    /\ UNCHANGED outsideRow

\* getTable rejected: catch (error) { next(error) }
GetTableRejected(error) ==
    /\ pc = "getTable"
    /\ res' = defaultErrorHandler(error)
    /\ pc' = "responded"
    /\ UNCHANGED <<dialect, maxRows, req, filters, compiled, calls, ins, item,
                   replies, stored>>
    /\ UNCHANGED outsideRow

\* faulty variant of NoMatch: an empty result is not told apart
NoMatch_Never(matched) == FALSE

\* if (!result) of handleSelectOne, where queryOne gave result.rows[0] || null;
\* if (result.rowCount === 0) of handleUpdateOne and handleDeleteOne
NoMatch(matched) == matched = 0

\* the most rows WHERE pkColumn = id can match: a primary key of one column
\* is unique, the first column of a longer one is not
MostMatched(primaryKeys) ==
    IF Len(primaryKeys) <= 1 THEN 1 ELSE MaxRowCount

\* the statement by primary key resolved with `matched` rows
OneResolved(matched) ==
    /\ pc = "oneQuery"
    /\ matched <= MostMatched(item.primaryKeys)
    /\ replies' = Append(replies, Reply(TRUE, "", matched))
    /\ res' = IF NoMatch(matched) THEN NotFound
              ELSE IF req.method = "DELETE" THEN JsonCount(matched)
              ELSE JsonData(1)
    /\ pc' = "responded"
    /\ UNCHANGED <<dialect, maxRows, req, filters, compiled, calls, ins, item,
                   stored>>
    /\ UNCHANGED outsideRow

\* the statement by primary key rejected: catch (error) { next(error) }
OneRejected(error) ==
    /\ pc = "oneQuery"
    /\ replies' = Append(replies, Reply(FALSE, error, 0))
    /\ res' = defaultErrorHandler(error)
    /\ pc' = "responded"
    /\ UNCHANGED <<dialect, maxRows, req, filters, compiled, calls, ins, item,
                   stored>>
    /\ UNCHANGED outsideRow

RowInit ==
    /\ dialect \in Dialects
    /\ maxRows = DefaultMaxRows
    /\ pc = "idle"
    /\ req = NoReq
    /\ filters = NoFilters
    /\ compiled = NoCompiled
    /\ calls = <<>>
    /\ res = NoRes
    /\ TxIdle
    /\ RowIdle
    /\ CatIdle
    /\ LifeIdle
    /\ PolIdle
    /\ RegIdle
    /\ IntroIdle
    /\ SubIdle

RowNext ==
    \/ \E t \in Tables, rows \in InsertArrays : HandleInsert(t, TRUE, rows)
    \/ \E t \in Tables, row \in InsertRowPool : HandleInsert(t, FALSE, <<row>>)
    \/ \E returned \in BOOLEAN : InsertResolved(returned)
    \/ \E e \in BackendErrors : InsertRejected(e)
    \/ \E m \in {"GET", "PUT", "DELETE"}, t \in Tables, id \in ItemIds :
          \E b \in (IF m = "PUT" THEN Bodies ELSE {<<>>}) : HandleOne(m, t, id, b)
    \/ \E pks \in PrimaryKeyLists : GetTableResolved(pks)
    \/ \E e \in BackendErrors : GetTableRejected(e)
    \/ \E n \in 0..MaxRowCount : OneResolved(n)
    \/ \E e \in BackendErrors : OneRejected(e)
    \/ \E t \in Tables, q \in RowQueries : HandleSelect(t, q)
    \/ \E n \in 0..MaxRowCount : SelectQueryResolved(n)
    \/ SelectCountResolved
    \/ \E t \in Tables, q \in RowQueries, b \in Bodies : HandleUpdate(t, q, b)
    \/ \E t \in Tables, q \in RowQueries : HandleDelete(t, q)
    \/ \E n \in 0..MaxRowCount : MutationResolved(n)
    \/ QueryRejected

SpecRow == RowInit /\ [][RowNext]_vars

\* ------------------------------------------------------------------------
\* transaction(fn) of PostgreSQLAdapter (dialect "postgresql") and of
\* AzureSQLAdapter (dialect "tsql"), with adapter.query calls beside them.
\* A connection executes the statements sent to it in the order they were
\* sent.  The mssql driver's Transaction object holds the connection that
\* begin() acquired until a COMMIT or ROLLBACK has been run through it, and
\* refuses commit(), rollback() and requests when it holds none.
\* ------------------------------------------------------------------------
Stmt(by, kind, src, n) == [by |-> by, kind |-> kind, src |-> src, n |-> n]
Executed(stmt, ok) ==
    [by |-> stmt.by, kind |-> stmt.kind, src |-> stmt.src, n |-> stmt.n, ok |-> ok]

\* faulty variant of IdleConns: a connection in use is handed out as well
IdleConns_Any == Conns

\* the connections pool.connect(), pool.query and pool.request() may hand out
IdleConns == {c \in Conns : holder[c] = 0}

Holding(t) == tx[t].conn # 0 /\ holder[tx[t].conn] = t

HeadIs(c, by, kind, src) ==
    /\ queue[c] # <<>>
    /\ Head(queue[c]).by = by
    /\ Head(queue[c]).kind = kind
    /\ Head(queue[c]).src = src

Resolved == [state |-> "resolved", error |-> ""]
Rejected(e) == [state |-> "rejected", error |-> e]

TxInit ==
    /\ dialect \in Dialects
    /\ maxRows = DefaultMaxRows
    /\ pc = "idle"
    /\ req = NoReq
    /\ filters = NoFilters
    /\ compiled = NoCompiled
    /\ calls = <<>>
    /\ res = NoRes
    /\ TxIdle
    /\ RowIdle
    /\ CatIdle
    /\ LifeIdle
    /\ PolIdle
    /\ RegIdle
    /\ IntroIdle
    /\ SubIdle

\* pool.connect() resolved (pg) or begin() acquired its connection (mssql);
\* BEGIN is sent on the connection
TxAcquire(t, c) ==
    /\ tx[t].pc = "init"
    /\ c \in IdleConns
    /\ holder' = [holder EXCEPT ![c] = t]
    /\ queue' = [queue EXCEPT ![c] = Append(@, Stmt(t, "BEGIN", "adapter", 0))]
    /\ tx' = [tx EXCEPT ![t].pc = "begin", ![t].conn = c, ![t].issued = 1,
                        ![t].checkouts = @ + 1]
    /\ UNCHANGED <<connLog, plain>>
    /\ UNCHANGED outsideTx

\* no connection could be obtained: transaction rejects, nothing is held
TxAcquireFails(t) ==
    /\ tx[t].pc = "init"
    /\ tx' = [tx EXCEPT ![t].pc = "settled",
                        ![t].outcome = Rejected("connectError")]
    /\ UNCHANGED <<holder, queue, connLog, plain>>
    /\ UNCHANGED outsideTx

\* the backend answered BEGIN.  pg: a failure is caught, ROLLBACK is sent.
\* mssql: begin() is awaited before the try block, a failure rejects the
\* call at once and neither commit() nor rollback() is called; whether the
\* driver gives the connection back by itself is not the adapter's doing.
ExecBegin(t, ok, driverReleases) ==
    LET c == tx[t].conn IN
    /\ tx[t].pc = "begin"
    /\ HeadIs(c, t, "BEGIN", "adapter")
    /\ connLog' = [connLog EXCEPT ![c] = Append(@, Executed(Head(queue[c]), ok))]
    /\ IF ok
       THEN /\ queue' = [queue EXCEPT ![c] = Tail(@)]
            /\ tx' = [tx EXCEPT ![t].pc = "callback"]
            /\ holder' = holder
       ELSE IF dialect = "postgresql"
       THEN /\ queue' = [queue EXCEPT ![c] =
                            Append(Tail(@), Stmt(t, "ROLLBACK", "adapter", tx[t].issued))]
            /\ tx' = [tx EXCEPT ![t].pc = "rollback", ![t].err = "beginError",
                                ![t].issued = @ + 1]
            /\ holder' = holder
       ELSE /\ queue' = [queue EXCEPT ![c] = Tail(@)]
            /\ tx' = [tx EXCEPT ![t].pc = "settled",
                                ![t].outcome = Rejected("beginError"),
                                ![t].releases = @ + (IF driverReleases THEN 1 ELSE 0)]
            /\ holder' = IF driverReleases THEN [holder EXCEPT ![c] = 0] ELSE holder
    /\ UNCHANGED plain
    /\ UNCHANGED outsideTx

\* fn calls ctx.query: the statement is sent on the transaction's connection.
\* The mssql driver runs one request of a transaction at a time and refuses
\* a request once the transaction holds no connection.
CtxQuery(t) ==
    LET c == tx[t].conn IN
    /\ tx[t].pc = "callback"
    /\ tx[t].queries < MaxStmts
    /\ Holding(t)
    /\ dialect = "tsql" => queue[c] = <<>>
    /\ queue' = [queue EXCEPT ![c] = Append(@, Stmt(t, "QUERY", "ctx", tx[t].issued))]
    /\ tx' = [tx EXCEPT ![t].issued = @ + 1, ![t].queries = @ + 1]
    /\ UNCHANGED <<holder, connLog, plain>>
    /\ UNCHANGED outsideTx

\* fn calls ctx.commit() or ctx.rollback()
CtxEnd(t, kind) ==
    LET c == tx[t].conn IN
    /\ tx[t].pc = "callback"
    /\ ~tx[t].ctxEnded
    /\ Holding(t)
    /\ dialect = "tsql" => queue[c] = <<>>
    /\ queue' = [queue EXCEPT ![c] = Append(@, Stmt(t, kind, "ctx", tx[t].issued))]
    /\ tx' = [tx EXCEPT ![t].issued = @ + 1, ![t].ctxEnded = TRUE]
    /\ UNCHANGED <<holder, connLog, plain>>
    /\ UNCHANGED outsideTx

\* the backend runs the oldest statement of a connection, one sent by fn;
\* a COMMIT or ROLLBACK run through the mssql Transaction releases its
\* connection
ExecStatement(c) ==
    /\ queue[c] # <<>>
    /\ Head(queue[c]).src = "ctx"
    /\ LET st == Head(queue[c])
           ends == dialect = "tsql" /\ st.kind \in {"COMMIT", "ROLLBACK"}
       IN  /\ connLog' = [connLog EXCEPT ![c] = Append(@, Executed(st, TRUE))]
           /\ holder' = IF ends THEN [holder EXCEPT ![c] = 0] ELSE holder
           /\ tx' = IF ends THEN [tx EXCEPT ![st.by].releases = @ + 1] ELSE tx
    /\ queue' = [queue EXCEPT ![c] = Tail(@)]
    /\ UNCHANGED plain
    /\ UNCHANGED outsideTx

\* fn returned normally: the adapter commits.  With the mssql driver a
\* commit() on a transaction that holds no connection rejects, then the
\* rollback() of the catch block rejects as well.
FnReturn(t) ==
    LET c == tx[t].conn IN
    /\ tx[t].pc = "callback"
    /\ dialect = "tsql" => queue[c] = <<>>
    /\ IF Holding(t)
       THEN /\ queue' = [queue EXCEPT ![c] =
                            Append(@, Stmt(t, "COMMIT", "adapter", tx[t].issued))]
            /\ tx' = [tx EXCEPT ![t].pc = "commit", ![t].fn = "returned",
                                ![t].issued = @ + 1]
       ELSE /\ queue' = queue
            /\ tx' = [tx EXCEPT ![t].pc = "settled", ![t].fn = "returned",
                                ![t].outcome = Rejected("rollbackError")]
    /\ UNCHANGED <<holder, connLog, plain>>
    /\ UNCHANGED outsideTx

\* fn raised: the catch block rolls back and rethrows
FnThrow(t) ==
    LET c == tx[t].conn IN
    /\ tx[t].pc = "callback"
    /\ dialect = "tsql" => queue[c] = <<>>
    /\ IF Holding(t)
       THEN /\ queue' = [queue EXCEPT ![c] =
                            Append(@, Stmt(t, "ROLLBACK", "adapter", tx[t].issued))]
            /\ tx' = [tx EXCEPT ![t].pc = "rollback", ![t].fn = "raised",
                                ![t].err = "fnError", ![t].issued = @ + 1]
       ELSE /\ queue' = queue
            /\ tx' = [tx EXCEPT ![t].pc = "settled", ![t].fn = "raised",
                                ![t].err = "fnError",
                                ![t].outcome = Rejected("rollbackError")]
    /\ UNCHANGED <<holder, connLog, plain>>
    /\ UNCHANGED outsideTx

\* the backend answered the adapter's COMMIT.  pg: success returns fn's
\* result through finally { client.release() }; failure goes to the catch
\* block, which sends ROLLBACK.  mssql: the driver has let go of the
\* connection, so the rollback() of the catch block rejects.
ExecCommit(t, ok) ==
    LET c == tx[t].conn IN
    /\ tx[t].pc = "commit"
    /\ HeadIs(c, t, "COMMIT", "adapter")
    /\ connLog' = [connLog EXCEPT ![c] = Append(@, Executed(Head(queue[c]), ok))]
    /\ IF dialect = "postgresql" /\ ~ok
       THEN /\ queue' = [queue EXCEPT ![c] =
                            Append(Tail(@), Stmt(t, "ROLLBACK", "adapter", tx[t].issued))]
            /\ tx' = [tx EXCEPT ![t].pc = "rollback", ![t].err = "commitError",
                                ![t].issued = @ + 1]
            /\ holder' = holder
       ELSE /\ queue' = [queue EXCEPT ![c] = Tail(@)]
            /\ tx' = [tx EXCEPT ![t].pc = "settled",
                                ![t].releases = @ + 1,
                                ![t].err = IF ok THEN @ ELSE "commitError",
                                ![t].outcome = IF ok THEN Resolved
                                               ELSE Rejected("rollbackError")]
            /\ holder' = [holder EXCEPT ![c] = 0]
    /\ UNCHANGED plain
    /\ UNCHANGED outsideTx

\* the backend answered the adapter's ROLLBACK: throw error when it
\* succeeded, the ROLLBACK's own error otherwise; the connection goes back
\* (finally { client.release() } in pg, the driver in mssql)
ExecRollback(t, ok) ==
    LET c == tx[t].conn IN
    /\ tx[t].pc = "rollback"
    /\ HeadIs(c, t, "ROLLBACK", "adapter")
    /\ connLog' = [connLog EXCEPT ![c] = Append(@, Executed(Head(queue[c]), ok))]
    /\ queue' = [queue EXCEPT ![c] = Tail(@)]
    /\ tx' = [tx EXCEPT ![t].pc = "settled",
                        ![t].releases = @ + 1,
                        ![t].outcome = IF ok THEN Rejected(tx[t].err)
                                       ELSE Rejected("rollbackError")]
    /\ holder' = [holder EXCEPT ![c] = 0]
    /\ UNCHANGED plain
    /\ UNCHANGED outsideTx

\* adapter.query outside a transaction: pool.query / pool.request() takes an
\* idle connection for one statement
PoolQuery(c) ==
    /\ plain < MaxPlain
    /\ c \in IdleConns
    /\ holder' = [holder EXCEPT ![c] = PlainId]
    /\ queue' = [queue EXCEPT ![c] = Append(@, Stmt(PlainId, "QUERY", "pool", plain))]
    /\ plain' = plain + 1
    /\ UNCHANGED <<connLog, tx>>
    /\ UNCHANGED outsideTx

\* the backend ran the statement of adapter.query; its connection is idle again
ExecPlain(c) ==
    /\ queue[c] # <<>>
    /\ Head(queue[c]).src = "pool"
    /\ connLog' = [connLog EXCEPT ![c] = Append(@, Executed(Head(queue[c]), TRUE))]
    /\ queue' = [queue EXCEPT ![c] = Tail(@)]
    /\ holder' = [holder EXCEPT ![c] = 0]
    /\ UNCHANGED <<tx, plain>>
    /\ UNCHANGED outsideTx

TxNext ==
    \/ \E t \in TxIds, c \in Conns : TxAcquire(t, c)
    \/ \E t \in TxIds : TxAcquireFails(t)
    \/ \E t \in TxIds, ok \in BOOLEAN, rel \in BOOLEAN : ExecBegin(t, ok, rel)
    \/ \E t \in TxIds : CtxQuery(t)
    \/ \E t \in TxIds, kind \in {"COMMIT", "ROLLBACK"} : CtxEnd(t, kind)
    \/ \E c \in Conns : ExecStatement(c)
    \/ \E t \in TxIds : FnReturn(t)
    \/ \E t \in TxIds : FnThrow(t)
    \/ \E t \in TxIds, ok \in BOOLEAN : ExecCommit(t, ok)
    \/ \E t \in TxIds, ok \in BOOLEAN : ExecRollback(t, ok)
    \/ \E c \in Conns : PoolQuery(c)
    \/ \E c \in Conns : ExecPlain(c)

SpecTx == TxInit /\ [][TxNext]_vars

\* ------------------------------------------------------------------------
\* The compiler applied to filter lists given directly (arrays included)
\* ------------------------------------------------------------------------
Filter(c, op, v) == [column |-> c, operator |-> op, value |-> v]

InArrays == {JsArr([i \in 1..n |-> JsNum(17 + i)]) : n \in 0..MaxInLen}

FilterPool ==
    {Filter("name", op, JsStr("x")) : op \in SupportedOperators \ {"in", "is"}}
    \cup {Filter("age", "in", v) : v \in InArrays \cup {JsNum(7)}}
    \cup {Filter("note", "is", v) : v \in {JsNull, JsBool(TRUE)}}

FilterLists == UNION {[1..n -> FilterPool] : n \in 0..MaxFilters}

CompileInit ==
    /\ dialect \in Dialects
    /\ maxRows = DefaultMaxRows
    /\ pc = "filters"
    /\ req = [NoReq EXCEPT !.table = "users"]
    /\ filters \in {[NoFilters EXCEPT !.where = w] : w \in FilterLists}
    /\ compiled = NoCompiled
    /\ calls = <<>>
    /\ res = NoRes
    /\ TxIdle
    /\ RowIdle
    /\ CatIdle
    /\ LifeIdle
    /\ PolIdle
    /\ RegIdle
    /\ IntroIdle
    /\ SubIdle

CompileSelect ==
    /\ pc = "filters"
    /\ compiled' = buildSelectQuery(dialect, maxRows, req.table, filters)
    /\ pc' = "select"
    /\ UNCHANGED outsideRest
    /\ UNCHANGED <<dialect, maxRows, req, filters, calls, res>>

CompileNext == CompileSelect

SpecCompile == CompileInit /\ [][CompileNext]_vars

\* ------------------------------------------------------------------------
\* getForeignKeys of both adapters: the rows of the catalog query, in the
\* order the backend delivers them, folded into ForeignKeyInfo objects.
\* `ordinal` is the position of the column in its constraint (in SQL Server
\* fkc.constraint_column_id); neither query selects it.
\* ------------------------------------------------------------------------
FkNames == <<"fk_a", "fk_b">>

FkRules == {"CASCADE", "NO ACTION"}

RawRow(name, k, rule) ==
    [constraint_name |-> name, column_name |-> "c" \o ToStr(k),
     referenced_table |-> "parent", referenced_column |-> "r" \o ToStr(k),
     delete_rule |-> rule, update_rule |-> "NO ACTION", ordinal |-> k]

\* one row per column of each constraint: fk_a over n columns, fk_b over m
CatalogRows(n, m, rule) ==
    {RawRow(FkNames[1], k, rule) : k \in 1..n}
    \cup {RawRow(FkNames[2], k, rule) : k \in 1..m}

NameIndex(name) == CHOOSE i \in 1..Len(FkNames) : FkNames[i] = name

Permutations_(S) ==
    {f \in [1..Cardinality(S) -> S] :
        \A i, j \in 1..Cardinality(S) : i # j => f[i] # f[j]}

\* ORDER BY fk.name, fkc.constraint_column_id
OrderedByNameAndOrdinal(rows) ==
    \A i, j \in 1..Len(rows) :
        i < j =>
            \/ NameIndex(rows[i].constraint_name)
                   < NameIndex(rows[j].constraint_name)
            \/ /\ rows[i].constraint_name = rows[j].constraint_name
               /\ rows[i].ordinal < rows[j].ordinal

\* the orders in which the rows of the catalog query can arrive: the T-SQL
\* query has an ORDER BY, the PostgreSQL query has none
Arrivals(d, rows) ==
    IF d = "tsql"
    THEN {f \in Permutations_(rows) : OrderedByNameAndOrdinal(f)}
    ELSE Permutations_(rows)

\* PostgreSQLAdapter.mapReferentialAction / AzureSQLAdapter.mapReferentialAction
mapReferentialAction(d, rule) ==
    IF d = "postgresql"
    THEN IF rule \in {"CASCADE", "SET NULL", "NO ACTION", "RESTRICT"}
         THEN rule ELSE "NO ACTION"
    ELSE IF rule = "CASCADE" THEN "CASCADE"
    ELSE IF rule = "SET_NULL" THEN "SET NULL"
    ELSE IF rule = "NO_ACTION" THEN "NO ACTION"
    ELSE IF rule = "RESTRICT" THEN "RESTRICT"
    ELSE "NO ACTION"

\* the loop of getForeignKeys over result.rows; fkMap lists the entries of
\* the Map in insertion order, which is the order of fkMap.values()
RECURSIVE foldForeignKeys(_, _, _)

foldForeignKeys(d, rows, fkMap) ==
    IF rows = <<>> THEN fkMap
    ELSE LET row == Head(rows)
             has == \E i \in 1..Len(fkMap) : fkMap[i].name = row.constraint_name
             withKey ==
                 IF has THEN fkMap
                 ELSE Append(fkMap,
                             [name |-> row.constraint_name,
                              columns |-> <<>>,
                              referencedTable |-> row.referenced_table,
                              referencedColumns |-> <<>>,
                              onDelete |-> mapReferentialAction(d, row.delete_rule),
                              onUpdate |-> mapReferentialAction(d, row.update_rule)])
             pushed ==
                 [i \in 1..Len(withKey) |->
                     IF withKey[i].name = row.constraint_name
                     THEN [withKey[i] EXCEPT
                              !.columns = Append(@, row.column_name),
                              !.referencedColumns =
                                  Append(@, row.referenced_column)]
                     ELSE withKey[i]]
         IN  foldForeignKeys(d, Tail(rows), pushed)

CatInit ==
    /\ dialect \in Dialects
    /\ maxRows = DefaultMaxRows
    /\ pc = "rows"
    /\ req = [NoReq EXCEPT !.table = "users"]
    /\ filters = NoFilters
    /\ compiled = NoCompiled
    /\ calls = <<>>
    /\ res = NoRes
    /\ TxIdle
    /\ RowIdle
    /\ LifeIdle
    /\ PolIdle
    /\ RegIdle
    /\ IntroIdle
    /\ SubIdle
    /\ \E n \in 1..MaxFkColumns, m \in 0..1, rule \in FkRules :
          rawRows \in Arrivals(dialect, CatalogRows(n, m, rule))
    /\ foreignKeys = <<>>

\* getForeignKeys after its query resolved
GetForeignKeys ==
    /\ pc = "rows"
    /\ foreignKeys' = foldForeignKeys(dialect, rawRows, <<>>)
    /\ pc' = "folded"
    /\ UNCHANGED <<dialect, maxRows, req, filters, compiled, calls, res,
                   rawRows>>
    /\ UNCHANGED outsideCat

CatNext == GetForeignKeys

SpecCatalog == CatInit /\ [][CatNext]_vars

\* ------------------------------------------------------------------------
\* connect, disconnect and query of PostgreSQLAdapter (dialect "postgresql")
\* and AzureSQLAdapter (dialect "tsql").  Calls may overlap: each await is a
\* point where another call of the adapter can run.  A driver pool that was
\* ended takes no more statements; pg rejects a second end() on one pool.
\* ------------------------------------------------------------------------
NewPool == [state |-> "open", ends |-> 0]

ConnectCall(at, made, outcome) == [pc |-> at, made |-> made, outcome |-> outcome]

DisconnectCall(at, outcome, overlapped, left) ==
    [pc |-> at, outcome |-> outcome, overlapped |-> overlapped, left |-> left]

QueryCall(wasReady, sent, outcome) ==
    [ready |-> wasReady, sent |-> sent, outcome |-> outcome]

LifeInit ==
    /\ dialect \in Dialects
    /\ maxRows = DefaultMaxRows
    /\ pc = "idle"
    /\ req = NoReq
    /\ filters = NoFilters
    /\ compiled = NoCompiled
    /\ calls = <<>>
    /\ res = NoRes
    /\ TxIdle
    /\ RowIdle
    /\ CatIdle
    /\ LifeIdle
    /\ PolIdle
    /\ RegIdle
    /\ IntroIdle
    /\ SubIdle

\* connect up to its first await: PostgreSQLAdapter assigns this.pool =
\* new Pool(...) and awaits pool.connect(); AzureSQLAdapter awaits
\* sql.connect(sqlConfig) with this.pool not yet assigned
ConnectStart ==
    /\ Len(connects) < MaxConnects
    /\ IF dialect = "postgresql"
       THEN /\ pools' = Append(pools, NewPool)
            /\ pool' = Len(pools) + 1
            /\ connects' = Append(connects,
                                  ConnectCall("testing", Len(pools) + 1, "pending"))
       ELSE /\ connects' = Append(connects, ConnectCall("connecting", 0, "pending"))
            /\ UNCHANGED <<pool, pools>>
    /\ UNCHANGED <<disconnects, queryLog, ready>>
    /\ UNCHANGED outsideLife

\* AzureSQLAdapter.connect: sql.connect settled; on success this.pool is
\* assigned and SELECT 1 is awaited
SqlConnectSettled(i, ok) ==
    /\ i \in 1..Len(connects)
    /\ connects[i].pc = "connecting"
    /\ IF ok
       THEN /\ pools' = Append(pools, NewPool)
            /\ pool' = Len(pools) + 1
            /\ connects' = [connects EXCEPT ![i] =
                               ConnectCall("testing", Len(pools) + 1, "pending")]
       ELSE /\ connects' = [connects EXCEPT ![i] =
                               ConnectCall("done", 0, "rejected")]
            /\ UNCHANGED <<pool, pools>>
    /\ UNCHANGED <<disconnects, queryLog, ready>>
    /\ UNCHANGED outsideLife

\* the connection test of connect settled (pool.connect / SELECT 1): connect
\* resolves, or rejects and leaves this.pool as it is
ConnectTestSettled(i, ok) ==
    /\ i \in 1..Len(connects)
    /\ connects[i].pc = "testing"
    /\ ok => pools[connects[i].made].state = "open"
    /\ connects' = [connects EXCEPT ![i] =
                       ConnectCall("done", connects[i].made,
                                   IF ok THEN "resolved" ELSE "rejected")]
    /\ ready' = IF ok THEN TRUE ELSE ready
    /\ UNCHANGED <<pool, pools, disconnects, queryLog>>
    /\ UNCHANGED outsideLife

\* faulty variant of PoolAfterEnd: disconnect keeps this.pool
PoolAfterEnd_Kept(p) == p

\* this.pool = undefined
PoolAfterEnd(p) == 0

Ending == {i \in 1..Len(disconnects) : disconnects[i].pc = "ending"}

\* disconnect up to its await: if (this.pool) await this.pool.end() /
\* close(); without a pool it returns at once
DisconnectStart ==
    /\ Len(disconnects) < MaxDisconnects
    /\ IF pool = 0
       THEN /\ disconnects' =
                   Append(disconnects,
                          DisconnectCall("done", "resolved", Ending # {}, pool))
            /\ UNCHANGED pools
       ELSE LET refused == dialect = "postgresql" /\ pools[pool].ends > 0
                marked == [i \in 1..Len(disconnects) |->
                              IF i \in Ending
                              THEN [disconnects[i] EXCEPT !.overlapped = TRUE]
                              ELSE disconnects[i]]
            IN  /\ pools' = [pools EXCEPT ![pool] =
                                [state |-> "ended", ends |-> @.ends + 1]]
                /\ disconnects' =
                       Append(marked,
                              IF refused
                              THEN DisconnectCall("done", "rejected",
                                                  Ending # {}, pool)
                              ELSE DisconnectCall("ending", "pending",
                                                  Ending # {}, pool))
    /\ UNCHANGED <<pool, connects, queryLog, ready>>
    /\ UNCHANGED outsideLife

\* pool.end() / close() resolved: this.pool = undefined; this.config = null
DisconnectFinish(i) ==
    /\ i \in Ending
    /\ pool' = PoolAfterEnd(pool)
    /\ disconnects' = [disconnects EXCEPT ![i] =
                          DisconnectCall("done", "resolved", @.overlapped,
                                         PoolAfterEnd(pool))]
    /\ ready' = FALSE
    /\ UNCHANGED <<pools, connects, queryLog>>
    /\ UNCHANGED outsideLife

\* query (queryOne goes through it): without this.pool it throws "Not
\* connected to database"; otherwise the statement goes to the driver pool,
\* which sends it unless it was ended
Query(ok, sent) ==
    /\ Len(queryLog) < MaxQueries
    /\ IF pool = 0
       THEN ~ok /\ ~sent
       ELSE IF pools[pool].state = "ended"
       THEN ~ok /\ ~sent
       ELSE ok => sent
    /\ queryLog' = Append(queryLog,
                          QueryCall(ready, sent,
                                    IF ok THEN "resolved" ELSE "rejected"))
    /\ UNCHANGED <<pool, pools, connects, disconnects, ready>>
    /\ UNCHANGED outsideLife

LifeNext ==
    \/ ConnectStart
    \/ \E i \in 1..MaxConnects, ok \in BOOLEAN : SqlConnectSettled(i, ok)
    \/ \E i \in 1..MaxConnects, ok \in BOOLEAN : ConnectTestSettled(i, ok)
    \/ DisconnectStart
    \/ \E i \in 1..MaxDisconnects : DisconnectFinish(i)
    \/ \E ok, sent \in BOOLEAN : Query(ok, sent)

SpecLife == LifeInit /\ [][LifeNext]_vars

\* ------------------------------------------------------------------------
\* applySecurityPolicy and removeSecurityPolicy of both adapters, against a
\* backend that holds policies and predicate functions by name.  CREATE
\* fails on a name that exists; DROP ... IF EXISTS never fails on a name
\* that does not.
\* ------------------------------------------------------------------------
PolicyNames == {"tenant_isolation", "owner_only"}

Statement(kind, name) == [kind |-> kind, name |-> name]

\* fn_${name}_predicate
functionName(name) == "fn_" \o name \o "_predicate"

\* the statements applySecurityPolicy sends, in order
applyStatements(d, name) ==
    IF d = "postgresql"
    THEN <<Statement("CREATE POLICY", name)>>
    ELSE <<Statement("CREATE FUNCTION", functionName(name)),
           Statement("CREATE SECURITY POLICY", name)>>

\* the statements removeSecurityPolicy sends, in order
removeStatements(d, name) ==
    IF d = "postgresql"
    THEN <<Statement("DROP POLICY IF EXISTS", name)>>
    ELSE <<Statement("DROP SECURITY POLICY IF EXISTS", name),
           Statement("DROP FUNCTION IF EXISTS", functionName(name))>>

Backend(ok, pols, fns) == [ok |-> ok, policies |-> pols, functions |-> fns]

\* what the backend does with one statement
Execute(stmt, b) ==
    IF stmt.kind \in {"CREATE POLICY", "CREATE SECURITY POLICY"}
    THEN IF stmt.name \in b.policies THEN Backend(FALSE, b.policies, b.functions)
         ELSE Backend(TRUE, b.policies \cup {stmt.name}, b.functions)
    ELSE IF stmt.kind = "CREATE FUNCTION"
    THEN IF stmt.name \in b.functions THEN Backend(FALSE, b.policies, b.functions)
         ELSE Backend(TRUE, b.policies, b.functions \cup {stmt.name})
    ELSE IF stmt.kind \in {"DROP POLICY IF EXISTS",
                           "DROP SECURITY POLICY IF EXISTS"}
    THEN Backend(TRUE, b.policies \ {stmt.name}, b.functions)
    ELSE Backend(TRUE, b.policies, b.functions \ {stmt.name})

\* await this.query(...) for each statement in turn; the first rejection
\* ends the sequence
RECURSIVE ExecuteAll(_, _)

ExecuteAll(stmts, b) ==
    IF stmts = <<>> THEN b
    ELSE LET after == Execute(Head(stmts), b)
         IN  IF after.ok THEN ExecuteAll(Tail(stmts), after) ELSE after

PolicyOp(op, name, existed, outcome, changed) ==
    [op |-> op, name |-> name, existed |-> existed, outcome |-> outcome,
     changed |-> changed]

PolInit ==
    /\ dialect \in Dialects
    /\ maxRows = DefaultMaxRows
    /\ pc = "idle"
    /\ req = NoReq
    /\ filters = NoFilters
    /\ compiled = NoCompiled
    /\ calls = <<>>
    /\ res = NoRes
    /\ TxIdle
    /\ RowIdle
    /\ CatIdle
    /\ LifeIdle
    /\ PolIdle
    /\ RegIdle
    /\ IntroIdle
    /\ SubIdle

\* applySecurityPolicy(policy)
ApplySecurityPolicy(name) ==
    /\ Len(policyOps) < MaxPolicyOps
    /\ LET after == ExecuteAll(applyStatements(dialect, name),
                               Backend(TRUE, policies, functions))
       IN  /\ policies' = after.policies
           /\ functions' = after.functions
           /\ policyOps' =
                  Append(policyOps,
                         PolicyOp("apply", name, name \in policies,
                                  IF after.ok THEN "resolved" ELSE "rejected",
                                  after.policies # policies))
    /\ UNCHANGED outsidePol

\* removeSecurityPolicy(policyName, tableName); a failure to drop the
\* predicate function is caught and only logged
RemoveSecurityPolicy(name) ==
    /\ Len(policyOps) < MaxPolicyOps
    /\ LET after == ExecuteAll(removeStatements(dialect, name),
                               Backend(TRUE, policies, functions))
       IN  /\ policies' = after.policies
           /\ functions' = after.functions
           /\ policyOps' =
                  Append(policyOps,
                         PolicyOp("remove", name, name \in policies,
                                  "resolved", after.policies # policies))
    /\ UNCHANGED outsidePol

PolNext ==
    \/ \E name \in PolicyNames : ApplySecurityPolicy(name)
    \/ \E name \in PolicyNames : RemoveSecurityPolicy(name)

SpecPolicy == PolInit /\ [][PolNext]_vars

\* ------------------------------------------------------------------------
\* AdapterRegistry: register and create
\* ------------------------------------------------------------------------
ProviderNames == {"postgres", "Postgres", "azuresql"}

CreateNames == {"POSTGRES", "mysql"}

Factories == {1, 2}

\* faulty variant of RegistryKey: provider names are compared as given
RegistryKey_AsGiven(provider) == provider

\* provider.toLowerCase()
RegistryKey(provider) == toLowerCase(provider)

\* Map.get: the factory stored under key, 0 for undefined
MapGet(map, key) ==
    IF \E i \in 1..Len(map) : map[i].key = key
    THEN map[CHOOSE i \in 1..Len(map) : map[i].key = key].factory
    ELSE 0

\* Map.set: a key already present keeps its place and takes the new value
MapSet(map, key, factory) ==
    IF \E i \in 1..Len(map) : map[i].key = key
    THEN [i \in 1..Len(map) |->
             IF map[i].key = key THEN [key |-> key, factory |-> factory]
             ELSE map[i]]
    ELSE Append(map, [key |-> key, factory |-> factory])

\* the message of the error create throws for an unknown provider
UnknownProvider(provider, map) ==
    "Unknown database provider: " \o provider \o ". "
    \o "Available providers: "
    \o Join([i \in 1..Len(map) |-> map[i].key], ", ")

RegInit ==
    /\ dialect \in Dialects
    /\ maxRows = DefaultMaxRows
    /\ pc = "idle"
    /\ req = NoReq
    /\ filters = NoFilters
    /\ compiled = NoCompiled
    /\ calls = <<>>
    /\ res = NoRes
    /\ TxIdle
    /\ RowIdle
    /\ CatIdle
    /\ LifeIdle
    /\ PolIdle
    /\ RegIdle
    /\ IntroIdle
    /\ SubIdle

\* AdapterRegistry.register(provider, factory)
Register(provider, factory) ==
    /\ Len(registered) < MaxRegisters
    /\ adapters' = MapSet(adapters, RegistryKey(provider), factory)
    /\ registered' = Append(registered,
                            [provider |-> provider, factory |-> factory])
    /\ UNCHANGED <<created, factoryCalls>>
    /\ UNCHANGED outsideReg

\* AdapterRegistry.create(provider, config)
Create(provider) ==
    /\ Len(created) < MaxCreates
    /\ LET factory == MapGet(adapters, RegistryKey(provider))
       IN  IF factory = 0
           THEN /\ created' =
                       Append(created,
                              [provider |-> provider, at |-> Len(registered),
                               outcome |-> "rejected",
                               message |-> UnknownProvider(provider, adapters)])
                /\ UNCHANGED factoryCalls
           ELSE /\ created' =
                       Append(created,
                              [provider |-> provider, at |-> Len(registered),
                               outcome |-> "factory", message |-> ""])
                /\ factoryCalls' =
                       Append(factoryCalls,
                              [factory |-> factory, create |-> Len(created) + 1])
    /\ UNCHANGED <<adapters, registered>>
    /\ UNCHANGED outsideReg

RegNext ==
    \/ \E provider \in ProviderNames, factory \in Factories :
          Register(provider, factory)
    \/ \E provider \in CreateNames : Create(provider)

SpecRegistry == RegInit /\ [][RegNext]_vars

\* ------------------------------------------------------------------------
\* Introspection: getTable and getTables
\* ------------------------------------------------------------------------
\* ORDER BY table_name of the listing query
TableOrder == <<"posts", "users">>

RelationMissing == "relation does not exist"

\* the result of one facet query for a table that is present or not.
\* getColumns, getForeignKeys and getIndexes filter catalog views by schema
\* and name and find no row for a missing table; PostgreSQL getPrimaryKeys
\* casts the name with $1::regclass, which raises for a missing relation.
\* The T-SQL getPrimaryKeys filters INFORMATION_SCHEMA by name.
FacetQuery(d, f, present) ==
    IF present
    THEN [state |-> "resolved", value |-> "rows", error |-> ""]
    ELSE IF d = "postgresql" /\ f = "primaryKeys"
         THEN [state |-> "rejected", value |-> "", error |-> RelationMissing]
         ELSE [state |-> "resolved", value |-> "empty", error |-> ""]

FacetPending == [state |-> "pending", value |-> "", error |-> ""]
AllPending == [f \in Facets |-> FacetPending]

\* the TableInfo built from the four results
TableInfo(name, facets) ==
    [name |-> name,
     columns |-> facets["columns"].value,
     primaryKeys |-> facets["primaryKeys"].value,
     foreignKeys |-> facets["foreignKeys"].value,
     indexes |-> facets["indexes"].value]

\* Promise.all rejects as soon as one of its promises rejects
PromiseAll(facets) ==
    IF \E f \in Facets : facets[f].state = "rejected"
    THEN "rejected"
    ELSE IF \E f \in Facets : facets[f].state = "pending"
         THEN "pending"
         ELSE "resolved"

IntroInit ==
    /\ dialect \in Dialects
    /\ maxRows = DefaultMaxRows
    /\ pc = "idle"
    /\ req = NoReq
    /\ filters = NoFilters
    /\ compiled = NoCompiled
    /\ calls = <<>>
    /\ res = NoRes
    /\ TxIdle
    /\ RowIdle
    /\ CatIdle
    /\ LifeIdle
    /\ PolIdle
    /\ RegIdle
    /\ IntroIdle
    /\ SubIdle

\* getTable(tableName): the four facet queries are sent together
GetTable(tableName) ==
    /\ intro.op = "none"
    /\ intro' = [intro EXCEPT !.op = "getTable", !.rows = <<tableName>>,
                              !.i = 1, !.facets = AllPending,
                              !.outcome = "pending"]
    /\ UNCHANGED <<existing, restVars>>
    /\ UNCHANGED outsideIntro

\* getTables(): the listing query, then the loop over its rows
GetTables ==
    /\ intro.op = "none"
    /\ LET rows == SelectSeq(TableOrder, LAMBDA t : t \in existing)
       IN  intro' = IF rows = <<>>
                    THEN [intro EXCEPT !.op = "getTables",
                                       !.outcome = "resolved"]
                    ELSE [intro EXCEPT !.op = "getTables", !.rows = rows,
                                       !.i = 1, !.facets = AllPending,
                                       !.outcome = "pending"]
    /\ UNCHANGED <<existing, restVars>>
    /\ UNCHANGED outsideIntro

\* another session drops a table
DropTable(t) ==
    /\ t \in existing
    /\ existing' = existing \ {t}
    /\ UNCHANGED <<intro, restVars>>
    /\ UNCHANGED outsideIntro

\* one facet query of the table in hand comes back; the await of Promise.all
\* continues when it rejects or when the last one resolves
FacetSettled(f) ==
    /\ intro.op # "none"
    /\ intro.facets[f].state = "pending"
    /\ LET name == intro.rows[intro.i]
           facets == [intro.facets EXCEPT
                         ![f] = FacetQuery(dialect, f, name \in existing)]
           all == PromiseAll(facets)
           seen == [intro EXCEPT !.facets = facets]
       IN  intro' =
             IF intro.outcome # "pending" \/ all = "pending"
             THEN seen
             ELSE IF all = "rejected"
             THEN [seen EXCEPT !.outcome = "rejected",
                               !.error = facets[f].error]
             ELSE LET pushed == Append(intro.tables, TableInfo(name, facets))
                  IN  IF intro.i < Len(intro.rows)
                      THEN [seen EXCEPT !.tables = pushed,
                                        !.i = intro.i + 1,
                                        !.facets = AllPending]
                      ELSE [seen EXCEPT !.tables = pushed,
                                        !.outcome = "resolved"]
    /\ UNCHANGED <<existing, restVars>>
    /\ UNCHANGED outsideIntro

IntroNext ==
    \/ \E t \in IntroTables : GetTable(t)
    \/ GetTables
    \/ \E t \in IntroTables : DropTable(t)
    \/ \E f \in Facets : FacetSettled(f)

SpecIntro == IntroInit /\ [][IntroNext]_vars

\* ------------------------------------------------------------------------
\* subscribeToChanges of PostgreSQLAdapter (dialect "postgresql") and of
\* AzureSQLAdapter (dialect "tsql"): the interval timer, its ticks and the
\* Subscription handed back.  A tick is an async function: it is suspended
\* on its query while the timer, other ticks and unsubscribe go on.  Change
\* rows of a table carry the LSNs 1, 2, ... in the order they were written.
\* ------------------------------------------------------------------------
\* the closure of one subscribeToChanges call: let active = true, the
\* lastLsnMap entry of its table, and what its callback has been given
NewSub(key) ==
    [key |-> key, active |-> TRUE, unsubscribed |-> FALSE, lastLsn |-> 0,
     regressed |-> FALSE, delivered |-> <<>>, late |-> 0]

Poll(i, n, from) == [sub |-> i, n |-> n, from |-> from]

SubInit ==
    /\ dialect \in Dialects
    /\ maxRows = DefaultMaxRows
    /\ pc = "idle"
    /\ req = NoReq
    /\ filters = NoFilters
    /\ compiled = NoCompiled
    /\ calls = <<>>
    /\ res = NoRes
    /\ TxIdle
    /\ RowIdle
    /\ CatIdle
    /\ LifeIdle
    /\ PolIdle
    /\ RegIdle
    /\ IntroIdle
    /\ SubIdle

\* subscribeToChanges: setInterval(...); AzureSQLAdapter also stores the
\* timer with this.cdcPollers.set(tables.join(","), interval)
SubscribeToChanges(key) ==
    /\ Len(subs) < MaxSubs
    /\ subs' = Append(subs, NewSub(key))
    /\ timers' = timers \cup {Len(subs) + 1}
    /\ cdcPollers' = IF dialect = "tsql"
                     THEN [cdcPollers EXCEPT ![key] = Len(subs) + 1]
                     ELSE cdcPollers
    /\ UNCHANGED <<polls, ticks, changeLog>>
    /\ UNCHANGED outsideSub

\* the backend records a change of a table
Change(key) ==
    /\ changeLog[key] < MaxChanges
    /\ changeLog' = [changeLog EXCEPT ![key] = @ + 1]
    /\ UNCHANGED <<subs, timers, cdcPollers, polls, ticks>>
    /\ UNCHANGED outsideSub

\* the timer fires: if (!active) return; otherwise the query is sent, for
\* T-SQL with lastLsnMap.get(table) as its parameter, and awaited
Tick(i) ==
    /\ i \in timers
    /\ subs[i].active
    /\ ticks < MaxTicks
    /\ polls' = polls \cup
                   {Poll(i, ticks + 1,
                         IF dialect = "tsql" THEN subs[i].lastLsn ELSE 0)}
    /\ ticks' = ticks + 1
    /\ UNCHANGED <<subs, timers, cdcPollers, changeLog>>
    /\ UNCHANGED outsideSub

\* the rows a poll query returns: T-SQL WHERE __$start_lsn > @param0 ORDER
\* BY __$start_lsn; PostgreSQL ORDER BY changed_at DESC LIMIT 10
PollRows(d, from, last) ==
    IF d = "tsql"
    THEN [k \in 1..(IF last > from THEN last - from ELSE 0) |-> from + k]
    ELSE [k \in 1..last |-> last - k + 1]

\* the query of a tick resolved: for (const row of result.rows) calls the
\* callback and, for T-SQL, lastLsnMap.set(table, row.lsn); regressed tells
\* that a set replaced an LSN by a lower one
PollResolved(p) ==
    /\ p \in polls
    /\ LET i == p.sub
           rows == PollRows(dialect, p.from, changeLog[subs[i].key])
       IN  subs' = [subs EXCEPT
                       ![i].delivered = @ \o rows,
                       ![i].late = @ + (IF subs[i].unsubscribed
                                        THEN Len(rows) ELSE 0),
                       ![i].lastLsn = IF dialect = "tsql" /\ Len(rows) > 0
                                      THEN rows[Len(rows)] ELSE @,
                       ![i].regressed = @ \/ (dialect = "tsql" /\ Len(rows) > 0
                                               /\ rows[1] < subs[i].lastLsn)]
    /\ polls' = polls \ {p}
    /\ UNCHANGED <<timers, cdcPollers, ticks, changeLog>>
    /\ UNCHANGED outsideSub

\* the query of a tick rejected: the catch block of the tick
PollRejected(p) ==
    /\ p \in polls
    /\ polls' = polls \ {p}
    /\ UNCHANGED <<subs, timers, cdcPollers, ticks, changeLog>>
    /\ UNCHANGED outsideSub

\* Subscription.unsubscribe: active = false; PostgreSQLAdapter clears its own
\* interval, AzureSQLAdapter the one this.cdcPollers holds under its key
Unsubscribe(i) ==
    /\ i \in 1..Len(subs)
    /\ ~subs[i].unsubscribed
    /\ subs' = [subs EXCEPT ![i].active = FALSE, ![i].unsubscribed = TRUE]
    /\ IF dialect = "postgresql"
       THEN /\ timers' = timers \ {i}
            /\ cdcPollers' = cdcPollers
       ELSE LET poller == cdcPollers[subs[i].key]
            IN  /\ timers' = timers \ {poller}
                /\ cdcPollers' = [cdcPollers EXCEPT ![subs[i].key] = 0]
    /\ UNCHANGED <<polls, ticks, changeLog>>
    /\ UNCHANGED outsideSub

SubNext ==
    \/ \E key \in SubKeys : SubscribeToChanges(key)
    \/ \E key \in SubKeys : Change(key)
    \/ \E i \in 1..MaxSubs : Tick(i)
    \/ \E p \in polls : PollResolved(p)
    \/ \E p \in polls : PollRejected(p)
    \/ \E i \in 1..MaxSubs : Unsubscribe(i)

SpecSub == SubInit /\ [][SubNext]_vars

\* ------------------------------------------------------------------------
\* Reading a compiled statement back
\* ------------------------------------------------------------------------
OpenQuote(d) == IF d = "postgresql" THEN "\"" ELSE "["
CloseQuote(d) == IF d = "postgresql" THEN "\"" ELSE "]"
Marker(d) == IF d = "postgresql" THEN "$" ELSE "@param"

StartsAt(text, i, sub) ==
    /\ i + Len(sub) - 1 <= Len(text)
    /\ SubSeq(text, i, i + Len(sub) - 1) = sub

\* the placeholder that starts at position i, as a one-element list of its
\* index (index k is written $k+1 or @paramk), or the empty list
PlaceholderAt(d, text, i) ==
    LET m == Marker(d)
        k == DigitsLen(text, i + Len(m))
    IN  IF StartsAt(text, i, m) /\ k > 0
        THEN <<StrToNat(SubSeq(text, i + Len(m), i + Len(m) + k - 1), 0)
               - (IF d = "postgresql" THEN 1 ELSE 0)>>
        ELSE <<>>

RECURSIVE ScanPlaceholders(_, _, _, _, _)
\* the indices of the placeholders in text[lo..hi], left to right, skipping
\* quoted identifiers; quoted tells whether lo lies inside an identifier
ScanPlaceholders(d, text, lo, hi, quoted) ==
    IF lo > hi THEN [found |-> <<>>, quoted |-> quoted]
    ELSE IF lo = hi
    THEN IF quoted
         THEN [found |-> <<>>, quoted |-> Char(text, lo) # CloseQuote(d)]
         ELSE IF Char(text, lo) = OpenQuote(d)
         THEN [found |-> <<>>, quoted |-> TRUE]
         ELSE [found |-> PlaceholderAt(d, text, lo), quoted |-> FALSE]
    ELSE LET mid == (lo + hi) \div 2
             left == ScanPlaceholders(d, text, lo, mid, quoted)
             right == ScanPlaceholders(d, text, mid + 1, hi, left.quoted)
         IN  [found |-> left.found \o right.found, quoted |-> right.quoted]

PlaceholderIndices(d, text) ==
    ScanPlaceholders(d, text, 1, Len(text), FALSE).found

\* first position at or after i where sub occurs in text, 0 if none
FindFrom(text, sub, i) ==
    LET hits == {j \in i..(Len(text) - Len(sub) + 1) : StartsAt(text, j, sub)}
    IN  IF hits = {} THEN 0 ELSE CHOOSE j \in hits : \A k \in hits : j <= k

Contains(text, sub) == FindFrom(text, sub, 1) > 0

\* the text that follows the first occurrence of sub
After(text, sub) ==
    SubSeq(text, FindFrom(text, sub, 1) + Len(sub), Len(text))

\* the row count a compiled SELECT asks the backend for
RowsRequested(d, text) ==
    IF d = "postgresql" THEN parseInt(After(text, "\" LIMIT ")).n
    ELSE parseInt(After(text, " ROWS FETCH NEXT ")).n

\* the values a filter is to bind: none for is, the elements for in
BoundValues(f) ==
    LET op == toLowerCase(f.operator)
    IN  IF op = "is" THEN <<>>
        ELSE IF op = "in" /\ f.value.t = "array" THEN f.value.items
        ELSE <<f.value>>

RECURSIVE ExpectedParams(_)
ExpectedParams(where) ==
    IF Len(where) = 0 THEN <<>>
    ELSE BoundValues(Head(where)) \o ExpectedParams(Tail(where))

Min(a, b) == IF a < b THEN a ELSE b

\* the column filters of a query string, in the order of its keys
ColumnFiltersOf(query) == SelectSeq(query, LAMBDA e : e.key \notin ReservedKeys)

\* ------------------------------------------------------------------------
\* Claims on the REST boundary
\* ------------------------------------------------------------------------
Handled == pc # "idle" /\ pc # "filters"

\* C1: a batch UPDATE or batch DELETE whose query string holds no column
\* filter (no key, or reserved keys only) is answered at once with status
\* 400 and no statement reaches adapter.query / adapter.queryOne, whatever
\* the body is.
C1_NoFilterNoBackendCall ==
    (req.method \in {"PATCH", "DELETE"} /\ Len(ColumnFiltersOf(req.query)) = 0)
        => (pc = "responded" /\ res.status = 400 /\ res.kind = "error"
            /\ calls = <<>>)

C1_Witness ==
    /\ req.method = "PATCH"
    /\ Len(req.query) > 0
    /\ Len(ColumnFiltersOf(req.query)) = 0
    /\ Len(req.body) > 0
    /\ res.status = 400

\* C5: the SQL text of a compiled SELECT holds as many placeholders as the
\* parameter list has elements, and the parameter list is the values of the
\* filters in order, an `in` filter giving the K values of its array (its
\* placeholders are therefore K consecutive ones at its position).
C5_PlaceholdersMatchParams ==
    (pc = "select" /\ ~compiled.threw)
        => /\ Len(PlaceholderIndices(dialect, compiled.query)) = Len(compiled.params)
           /\ compiled.params = ExpectedParams(filters.where)

C5_Witness ==
    /\ pc = "select"
    /\ Len(filters.where) = 3
    /\ filters.where[2].operator = "in"
    /\ Len(filters.where[2].value.items) = 3
    /\ filters.where[1].operator = "is"
    /\ filters.where[3].operator = "ilike"
    /\ PlaceholderIndices(dialect, compiled.query) = <<0, 1, 2, 3>>

\* C6: a column filter value without a recognized operator prefix is parsed
\* as operator eq with the whole value as operand, and the request compiles
\* instead of being rejected.
HasOperatorPrefix(v) ==
    /\ Len(Split(v, ".")) >= 2
    /\ toLowerCase(Head(Split(v, "."))) \in SupportedOperators

C6_BareValueIsEq ==
    (Handled /\ req.method = "GET")
        => \A i \in 1..Len(ColumnFiltersOf(req.query)) :
              LET v == ColumnFiltersOf(req.query)[i].value
              IN  ~HasOperatorPrefix(v)
                    => /\ filters.where[i].operator = "eq"
                       /\ filters.where[i].value = parseValue(v)
                       /\ ~compiled.threw

\* C7: the filter age=in.18,19,20 compiles to an IN predicate with three
\* placeholders and the parameters 18, 19, 20 as numbers.
C7_InListScenario ==
    (Handled /\ req.method = "GET"
     /\ req.query = <<Entry("age", "in.18,19,20")>>)
        => /\ ~compiled.threw
           /\ Len(PlaceholderIndices(dialect, compiled.query)) = 3
           /\ compiled.params = <<JsNum(18), JsNum(19), JsNum(20)>>

\* C8: the row count a compiled SELECT requests is min(requested limit,
\* maxRows), and maxRows when no limit is requested.
C8_EffectiveLimitIsMin ==
    (Handled /\ req.method = "GET" /\ ~compiled.threw)
        => RowsRequested(dialect, compiled.query)
             = (IF filters.hasLimit /\ ~filters.limit.nan
                THEN Min(filters.limit.n, maxRows) ELSE maxRows)

\* C9: {name: "eq.Alice", order: "created_at.desc", limit: "10"} on table
\* users compiles to the two documented statements with params ["Alice"].
ScenarioQuery ==
    <<Entry("name", "eq.Alice"), Entry("order", "created_at.desc"),
      Entry("limit", "10")>>

C9_ScenarioAB ==
    (Handled /\ req.method = "GET" /\ req.table = "users"
     /\ req.query = ScenarioQuery /\ maxRows >= 10)
        => /\ ~compiled.threw
           /\ compiled.params = <<JsStr("Alice")>>
           /\ compiled.query =
                (IF dialect = "postgresql"
                 THEN "SELECT * FROM \"users\" WHERE \"name\" = $1 ORDER BY \"created_at\" DESC LIMIT 10 OFFSET 0"
                 ELSE "SELECT * FROM [users] WHERE [name] = @param0 ORDER BY [created_at] DESC OFFSET 0 ROWS FETCH NEXT 10 ROWS ONLY")
           /\ Len(calls) >= 1
           /\ calls[1] = Call("query", compiled.query, compiled.params)

C9_Witness ==
    /\ req.query = ScenarioQuery
    /\ req.method = "GET"
    /\ dialect = "tsql"
    /\ maxRows = 1000
    /\ pc = "selectCount"

\* C10: a request with a column filter whose operator is not supported is
\* answered with a 4xx status and a message naming the operator, and sends
\* no statement to the backend (GET, PATCH and DELETE on /{table}).
UnsupportedOperatorsOf(f) ==
    {f.where[i].operator : i \in {j \in 1..Len(f.where) :
         toLowerCase(f.where[j].operator) \notin SupportedOperators}}

C10_UnsupportedOperatorIs400 ==
    (Handled /\ UnsupportedOperatorsOf(filters) # {})
        => /\ pc = "responded"
           /\ res.status >= 400 /\ res.status <= 499
           /\ \E op \in UnsupportedOperatorsOf(filters) : Contains(res.error, op)
           /\ calls = <<>>

\* ------------------------------------------------------------------------
\* Claims on transaction(fn)
\* ------------------------------------------------------------------------
\* the statements executed for transaction t, in execution order
TxStmts(t) ==
    IF tx[t].conn = 0 THEN <<>>
    ELSE SelectSeq(connLog[tx[t].conn], LAMBDA e : e.by = t)

Settled(t) == tx[t].pc = "settled"

\* C2: BEGIN is executed before any statement of fn; when fn returned
\* normally the adapter issues COMMIT after fn's statements and a COMMIT the
\* backend accepted makes transaction resolve; when fn raised, ROLLBACK is
\* issued and transaction rejects with the error fn raised.
C2_CommitOrRollbackAndRethrow ==
    \A t \in TxIds :
        LET log == TxStmts(t) IN
        /\ log # <<>> => log[1].kind = "BEGIN"
        /\ (Settled(t) /\ tx[t].fn = "returned")
              => \E i \in 1..Len(log) :
                    /\ log[i].kind = "COMMIT" /\ log[i].src = "adapter"
                    /\ \A j \in 1..Len(log) : log[j].src = "ctx" => j < i
                    /\ log[i].ok => tx[t].outcome = Resolved
        /\ (Settled(t) /\ tx[t].fn = "raised")
              => /\ \E i \in 1..Len(log) : log[i].kind = "ROLLBACK"
                 /\ tx[t].outcome = Rejected("fnError")

\* C3: every connection a transaction checked out has been released exactly
\* once by the time the transaction settles, whatever BEGIN, fn, COMMIT and
\* ROLLBACK did.
C3_ReleasedExactlyOnce ==
    \A t \in TxIds :
        /\ tx[t].releases <= tx[t].checkouts
        /\ Settled(t) => tx[t].releases = tx[t].checkouts

\* C4: while a transaction has a connection checked out, every statement
\* executed on that connection was issued through that transaction, and its
\* statements are executed in the order they were issued.
Open(t, c) == tx[t].conn = c /\ tx[t].checkouts > tx[t].releases

BulkInsert == req.method = "POST" /\ ins.array

InsertCall(i) ==
    LET sql == insertRow(req.table, ins.rows[i])
    IN  Call("query", sql.query, sql.params)

\* C11: a bulk insert sends the INSERT of each row of the array in array
\* order and only after the reply to the previous one; when the INSERT of
\* row k is rejected the rows before k are applied and stay applied, no row
\* after k is ever sent, and the response carries the error of row k.
C11_BulkInsertSequential ==
    BulkInsert =>
        /\ Len(calls) <= Len(replies) + 1
        /\ Len(calls) <= Len(ins.rows)
        /\ \A i \in 1..Len(calls) : calls[i] = InsertCall(i)
        /\ \A k \in 1..Len(replies) :
              IF replies[k].ok
              THEN Len(stored) >= k /\ stored[k] = ins.rows[k]
              ELSE /\ Len(calls) = k
                   /\ stored = SubSeq(ins.rows, 1, k - 1)
                   /\ pc = "responded"
                   /\ res.status >= 400
                   /\ res.error = replies[k].error

C11_Witness ==
    /\ BulkInsert
    /\ Len(ins.rows) = 3
    /\ ins.rows[1] # ins.rows[2]
    /\ Len(replies) = 2
    /\ replies[1].ok
    /\ ~replies[2].ok
    /\ pc = "responded"

\* ------------------------------------------------------------------------
\* Claims about catalog normalization
\* ------------------------------------------------------------------------
RowsOf(name) == {i \in 1..Len(rawRows) : rawRows[i].constraint_name = name}

\* the row of constraint `name` whose column holds position k of the
\* constraint
RowAt(name, k) ==
    CHOOSE i \in RowsOf(name) :
        Cardinality({j \in RowsOf(name) :
                        rawRows[j].ordinal < rawRows[i].ordinal}) = k - 1

C13_QueryBeforeConnectRejects ==
    \A q \in 1..Len(queryLog) :
        ~queryLog[q].ready =>
            /\ queryLog[q].outcome = "rejected"
            /\ ~queryLog[q].sent

\* C14: a disconnect that runs by itself (after the previous disconnect
\* returned, or on an adapter never connected) raises no error and leaves
\* this.pool undefined, and as long as disconnects run one after another no
\* driver pool is closed more than once.
C14_DisconnectIdempotent ==
    /\ \A i \in 1..Len(disconnects) :
          (disconnects[i].pc = "done" /\ ~disconnects[i].overlapped) =>
              /\ disconnects[i].outcome = "resolved"
              /\ disconnects[i].left = 0
    /\ (\A i \in 1..Len(disconnects) : ~disconnects[i].overlapped) =>
          \A p \in 1..Len(pools) : pools[p].ends <= 1

C14_Witness ==
    /\ Len(disconnects) = 2
    /\ \A i \in 1..2 : disconnects[i].pc = "done" /\ ~disconnects[i].overlapped
    /\ \E c \in 1..Len(connects) : connects[c].outcome = "resolved"
    /\ \E p \in 1..Len(pools) : pools[p].ends = 1
    /\ pool = 0

\* ------------------------------------------------------------------------
\* Claims about the /{table}/{id} routes
\* ------------------------------------------------------------------------
OneRoute == item.route = "one" /\ req.method \in {"GET", "PUT", "DELETE"}

BatchRoute == item.route = "" /\ req.method \in {"GET", "PATCH", "DELETE"}

TableStatements == {i \in 1..Len(calls) : calls[i].fn \in {"query", "queryOne"}}

C16_NotFoundOnlyForSingleRow ==
    pc = "responded" =>
        /\ (OneRoute /\ replies # <<>> /\ replies[Len(replies)].ok
              /\ replies[Len(replies)].rowCount = 0) => res.status = 404
        /\ BatchRoute =>
              \/ res.status = 200 /\ res.kind \in {"data", "count"}
              \/ res.status = 400 /\ MissingWhere(filters)
              \/ res = defaultErrorHandler(compiled.error) /\ compiled.threw
              \/ res = defaultErrorHandler("backend error")

C16_Witness ==
    /\ pc = "responded"
    /\ OneRoute
    /\ req.method = "PUT"
    /\ replies = <<Reply(TRUE, "", 0)>>
    /\ res = NotFound

\* ------------------------------------------------------------------------
\* Claims about security policies
\* ------------------------------------------------------------------------

\* C17: applySecurityPolicy succeeds whether or not the policy exists
\* already, and removeSecurityPolicy of a policy that does not exist
\* succeeds and changes nothing.
C17_PolicyOperationsIdempotent ==
    \A i \in 1..Len(policyOps) :
        LET o == policyOps[i] IN
        /\ (o.op = "apply" /\ o.existed) =>
               o.outcome = "resolved" /\ ~o.changed
        /\ (o.op = "remove" /\ ~o.existed) =>
               o.outcome = "resolved" /\ ~o.changed

\* ------------------------------------------------------------------------
\* Claims about the adapter registry
\* ------------------------------------------------------------------------
SameProvider(a, b) == toLowerCase(a) = toLowerCase(b)

\* the register calls made before create call c under the name it asks for
RegisteredAs(c) ==
    {i \in 1..created[c].at : SameProvider(registered[i].provider,
                                           created[c].provider)}

FactoryCallsOf(c) == {k \in 1..Len(factoryCalls) : factoryCalls[k].create = c}

\* C18: create with a name never registered (whatever the letter case)
\* fails with an 'Unknown database provider' error that names every
\* registered provider and calls no factory; with a registered name it calls
\* the factory registered last under that name, once.
C18_CreateUsesRegistry ==
    \A c \in 1..Len(created) :
        IF RegisteredAs(c) = {}
        THEN /\ created[c].outcome = "rejected"
             /\ StartsAt(created[c].message, 1, "Unknown database provider")
             /\ \A i \in 1..created[c].at :
                   Contains(After(created[c].message, "Available providers: "),
                            toLowerCase(registered[i].provider))
             /\ FactoryCallsOf(c) = {}
        ELSE /\ created[c].outcome = "factory"
             /\ Cardinality(FactoryCallsOf(c)) = 1
             /\ \A k \in FactoryCallsOf(c) :
                   factoryCalls[k].factory =
                       registered[CHOOSE i \in RegisteredAs(c) :
                                     \A j \in RegisteredAs(c) : j <= i].factory

C18_Witness ==
    /\ Len(registered) = 2
    /\ registered[1].provider = "postgres"
    /\ registered[2].provider = "Postgres"
    /\ registered[1].factory # registered[2].factory
    /\ Len(created) = 2
    /\ created[1].provider = "mysql" /\ created[1].at = 2
    /\ created[1].outcome = "rejected"
    /\ created[2].provider = "POSTGRES" /\ created[2].outcome = "factory"

\* ------------------------------------------------------------------------
\* Claims about the compiled SELECT
\* ------------------------------------------------------------------------
Occurrences(text, sub) ==
    {i \in 1..(Len(text) - Len(sub) + 1) : StartsAt(text, i, sub)}

CompiledSelect ==
    req.method = "GET" /\ item.route = "" /\ pc # "idle" /\ ~compiled.threw

\* C19: a SELECT compiled for T-SQL has exactly one ORDER BY, placed right
\* before OFFSET m ROWS FETCH NEXT n ROWS ONLY: the ordering the request
\* asked for, or ORDER BY (SELECT NULL) when it asked for none.
C19_TsqlSelectHasOneOrderBy ==
    (CompiledSelect /\ dialect = "tsql") =>
        LET q == compiled.query
            orderBy == Occurrences(q, " ORDER BY ")
            offset == Occurrences(q, " OFFSET ")
        IN  /\ Cardinality(orderBy) = 1
            /\ Cardinality(offset) = 1
            /\ \A o \in orderBy, f \in offset :
                  /\ o < f
                  /\ SubSeq(q, o + Len(" ORDER BY "), f - 1) =
                         IF Given(req.query, "order")
                         THEN OrderClauses(dialect, filters.order)
                         ELSE "(SELECT NULL)"
                  /\ SubSeq(q, f, Len(q)) =
                         " OFFSET " \o ToStr(EffectiveOffset(filters))
                         \o " ROWS FETCH NEXT "
                         \o ToStr(EffectiveLimit(filters, maxRows))
                         \o " ROWS ONLY"

\* the WHERE clause of a compiled SELECT: the text between WHERE and the
\* pagination tail
WhereText(d, text) ==
    LET from == FindFrom(text, " WHERE ", 1) + Len(" WHERE ")
        to == IF d = "postgresql" THEN FindFrom(text, " LIMIT ", 1)
              ELSE FindFrom(text, " ORDER BY ", 1)
    IN  SubSeq(text, from, to - 1)

ParamsOf(f) ==
    LET op == toLowerCase(f.operator)
    IN  IF op = "is" THEN 0
        ELSE IF op = "in"
        THEN (IF f.value.t = "array" THEN Len(f.value.items) ELSE 1)
        ELSE 1

\* C20: compiling one filter with a supported operator gives exactly one
\* predicate and binds 1 parameter for eq, neq, gt, gte, lt, lte, like and
\* ilike, as many as the array holds for in (1 for a scalar), and none for is.
C20_OneFilterOnePredicate ==
    (pc = "select" /\ Len(filters.where) = 1) =>
        LET f == filters.where[1]
            clause == WhereText(dialect, compiled.query)
        IN  /\ ~compiled.threw
            /\ Len(compiled.params) = ParamsOf(f)
            /\ Len(PlaceholderIndices(dialect, clause)) = ParamsOf(f)
            /\ Occurrences(clause, " AND ") = {}
            /\ Cardinality(Occurrences(clause,
                                       escapeIdentifier(dialect, f.column))) = 1

C20_Witness ==
    /\ pc = "select"
    /\ dialect = "tsql"
    /\ filters.where = <<Filter("age", "in", JsArr(<<JsNum(18), JsNum(19)>>))>>
    /\ compiled.query =
           "SELECT * FROM [users] WHERE [age] IN (@param0, @param1)"
           \o " ORDER BY (SELECT NULL) OFFSET 0 ROWS FETCH NEXT 1000 ROWS ONLY"
    /\ Len(compiled.params) = 2

\* the facets of the table in hand whose query failed
FailedFacets == {f \in Facets : intro.facets[f].state = "rejected"}

\* C21: when a facet query of getTable / getTables fails because the table
\* is gone, the call does not reject: it resolves and returns the table with
\* the failed facet empty.
C21_FacetFailureDoesNotReject ==
    FailedFacets # {} =>
        /\ intro.outcome # "rejected"
        /\ intro.outcome = "resolved" =>
              \E k \in 1..Len(intro.tables) :
                  /\ intro.tables[k].name = intro.rows[intro.i]
                  /\ \A f \in FailedFacets :
                        intro.tables[k][f] = "empty"

\* C22: every ORDER BY item of a compiled SELECT carries a direction that is
\* exactly ASC or DESC, whatever the order parameter holds.
C22_OrderDirectionIsAscOrDesc ==
    (CompiledSelect /\ Given(req.query, "order")) =>
        /\ Contains(compiled.query,
                    " ORDER BY " \o OrderClauses(dialect, filters.order))
        /\ \A k \in 1..Len(filters.order) :
              filters.order[k].direction \in {"ASC", "DESC"}

\* C23: for a table with a primary key, the statement of GET, PUT and
\* DELETE on /{table}/{id} selects on every column of the primary key, and
\* PUT and DELETE change at most one row.
C23_OneRouteUsesFullPrimaryKey ==
    (OneRoute /\ item.known /\ ~MissingPrimaryKey(item.primaryKeys)
       /\ pc \in {"oneQuery", "responded"}) =>
        /\ \A k \in 1..Len(item.primaryKeys) :
              Contains(After(compiled.query, " WHERE "),
                       escapeIdentifier(dialect, item.primaryKeys[k]))
        /\ (req.method \in {"PUT", "DELETE"} /\ replies # <<>>
              /\ replies[Len(replies)].ok) =>
                 replies[Len(replies)].rowCount <= 1

\* the text after the last occurrence of sub
AfterLast(text, sub) ==
    LET hits == Occurrences(text, sub)
        last == CHOOSE j \in hits : \A k \in hits : k <= j
    IN  IF hits = {} THEN "" ELSE SubSeq(text, last + Len(sub), Len(text))

\* the row count and the offset a compiled SELECT ends with
PageOf(d, text) ==
    IF d = "postgresql"
    THEN LET tail == AfterLast(text, " LIMIT ")
         IN  [tail |-> tail, n |-> parseInt(tail),
              m |-> parseInt(After(tail, " OFFSET ")),
              between |-> " OFFSET ", end |-> ""]
    ELSE LET tail == AfterLast(text, " OFFSET ")
         IN  [tail |-> tail, m |-> parseInt(tail),
              n |-> parseInt(After(tail, " ROWS FETCH NEXT ")),
              between |-> " ROWS FETCH NEXT ", end |-> " ROWS ONLY"]

\* C24: whatever limit and offset hold, a compiled SELECT asks for a row
\* count n with 1 <= n <= maxRows and an offset m >= 0, both written as
\* integers.
C24_PageWithinBounds ==
    CompiledSelect =>
        LET page == PageOf(dialect, compiled.query)
        IN  /\ ~page.n.nan
            /\ ~page.m.nan
            /\ page.tail =
                  IF dialect = "postgresql"
                  THEN ToStr(page.n.n) \o page.between \o ToStr(page.m.n)
                  ELSE ToStr(page.m.n) \o page.between \o ToStr(page.n.n)
                       \o page.end
            /\ 1 <= page.n.n
            /\ page.n.n <= maxRows
            /\ page.m.n >= 0

\* the positions in the log of t's connection of the COMMIT fn sent itself
CtxCommits(t) ==
    IF tx[t].conn = 0 THEN {}
    ELSE {i \in 1..Len(connLog[tx[t].conn]) :
             LET e == connLog[tx[t].conn][i]
             IN  e.by = t /\ e.kind = "COMMIT" /\ e.src = "ctx"}

\* C25: when fn calls ctx.commit() and then returns normally, transaction
\* resolves, exactly one COMMIT is issued for the transaction, and nothing
\* is issued on it after that COMMIT.
C25_CommitInsideCallback ==
    \A t \in TxIds :
        (tx[t].pc = "settled" /\ tx[t].fn = "returned" /\ CtxCommits(t) # {}) =>
            LET log == connLog[tx[t].conn]
            IN  /\ tx[t].outcome.state = "resolved"
                /\ Cardinality({i \in 1..Len(log) :
                                   log[i].by = t /\ log[i].kind = "COMMIT"}) = 1
                /\ \A i \in CtxCommits(t), j \in 1..Len(log) :
                      j > i => log[j].by # t

\* every connect made so far has failed
OnlyFailedConnects ==
    /\ connects # <<>>
    /\ \A i \in 1..Len(connects) :
          connects[i].pc = "done" /\ connects[i].outcome = "rejected"

\* C26: after a failed connect the adapter holds no pool (so isConnected()
\* is false and a query rejects with "Not connected to database"), and a
\* connect on a connected adapter leaves no earlier pool open: every open
\* driver pool is the one this.pool refers to.
C26_FailedConnectLeavesNoPool ==
    /\ OnlyFailedConnects => pool = 0
    /\ \A p \in 1..Len(pools) : pools[p].state = "open" => p = pool

\* a batch request whose statement was compiled
StatementCompiled ==
    /\ BatchRoute
    /\ pc \in {"selectQuery", "selectCount", "mutationQuery", "responded"}
    /\ ~compiled.threw
    /\ compiled.query # ""

\* the indices from, from + 1, ..., from + n - 1
Consecutive(from, n) == [k \in 1..n |-> from + k - 1]

\* C27: the placeholder indices of a compiled SELECT, batch UPDATE or batch
\* DELETE, read left to right, are 0, 1, 2, ... as many as the parameter
\* list has elements; in a batch UPDATE those of SET are 0..c-1 for the c
\* body columns and those of WHERE start at c.
C27_PlaceholdersAreConsecutive ==
    StatementCompiled =>
        LET q == compiled.query
            n == Len(compiled.params)
            c == Len(req.body)
            at == FindFrom(q, " WHERE ", 1)
        IN  /\ PlaceholderIndices(dialect, q) = Consecutive(0, n)
            /\ req.method = "PATCH" =>
                  /\ PlaceholderIndices(dialect, SubSeq(q, 1, at - 1))
                        = Consecutive(0, c)
                  /\ PlaceholderIndices(dialect, SubSeq(q, at, Len(q)))
                        = Consecutive(c, n - c)

\* C28: subscriptions of one AzureSQLAdapter are independent, also with the
\* same table list: the timer of a subscription is scheduled exactly as long
\* as its isActive() is true, so unsubscribing one stops its own timer and
\* no other, and no timer is left once all are unsubscribed.
C28_SubscriptionsIndependent ==
    dialect = "tsql" =>
        \A i \in 1..Len(subs) : subs[i].active <=> i \in timers

\* C29: once unsubscribe() of a Subscription has resolved, isActive() is
\* false and its callback is not invoked any more, in both adapters.
C29_NoCallbackAfterUnsubscribe ==
    \A i \in 1..Len(subs) :
        subs[i].unsubscribed => ~subs[i].active /\ subs[i].late = 0

StrictlyIncreasing(seq) ==
    \A a, b \in 1..Len(seq) : a < b => seq[a] < seq[b]

\* C30: the T-SQL poller gives each change row of a table to the callback
\* at most once and in increasing LSN order, and the cursor of the table
\* never moves back.
C30_ChangesDeliveredOnceInOrder ==
    dialect = "tsql" =>
        \A i \in 1..Len(subs) :
            /\ StrictlyIncreasing(subs[i].delivered)
            /\ ~subs[i].regressed

====
